---- MODULE Spec2Model ----
(***************************************************************************)
(* Model of the Thai/English subtitle learning backend:                    *)
(*   - SubtitleAlignmentService (services/subtitle_alignment_service.py):  *)
(*     extract_subtitle_entries, calculate_overlap, align_subtitles,       *)
(*     process_thai_sentence, create_learning_entries,                     *)
(*     process_video_for_learning;                                         *)
(*   - the word cache of utils/word_util.py (process_thai_word);           *)
(*   - SearchResult.get_english_translations (models/dict_schemas.py);     *)
(*   - the exact-match search of utils/dict_helpers.py.                    *)
(*                                                                         *)
(* Times are Python floats.  A float is modelled as a binary floating      *)
(* point number with a Prec-bit significand and round-to-nearest-even, the *)
(* rule of IEEE 754 that Python uses (with a 53-bit significand); a value  *)
(* is held as an integer count of units of 2^-FracBits.                    *)
(* Strings are sequences of Unicode code points.                           *)
(***************************************************************************)
EXTENDS Integers, Sequences, FiniteSets, TLC

\* ----------------------------------------------------------------- bounds
\* significand bits of the modelled float format
Prec == 5
\* longest raw cue list given to extract_subtitle_entries
MaxCues == 2
\* longest thai_subs and eng_subs given to align_subtitles
MaxThai == 2
MaxEng == 2
\* most calls of process_thai_word for one word
MaxCalls == 3
\* longest cue list of a stored transcript
MaxPipeCues == 2
\* most calls of process_video_for_learning
MaxRuns == 2
\* most calls of process_thai_words_batch and clear_word_cache together
MaxOps == 2
\* longest word list given to process_thai_words_batch
MaxBatch == 2
\* longest entry list given to a dictionary search
MaxEntries == 2

\* the longest sentence given to process_thai_sentence
MaxText == 4

\* exponent of the smallest unit: one unit is 2^-FracBits seconds
FracBits == Prec + 3

\* ------------------------------------------------------ float arithmetic
RECURSIVE Pow2(_)
Pow2(k) == IF k <= 0 THEN 1 ELSE 2 * Pow2(k - 1)

\* the float 1.0
One == Pow2(FracBits)

\* number of low bits a magnitude q has to give up to fit Prec bits
RECURSIVE ShiftFor(_)
ShiftFor(q) == IF q < Pow2(Prec) THEN 0 ELSE 1 + ShiftFor(q \div 2)

\* n/d rounded to an integer, ties to even (n >= 0, d > 0)
RoundHalfEven(n, d) ==
    LET f == n \div d
        r == n % d
    IN  IF 2 * r < d THEN f
        ELSE IF 2 * r > d THEN f + 1
        ELSE IF f % 2 = 0 THEN f ELSE f + 1

\* the float nearest to the rational n/d units (d > 0)
RoundPos(n, d) ==
    LET u == Pow2(ShiftFor(n \div d))
    IN  RoundHalfEven(n, d * u) * u

RoundQ(n, d) == IF n >= 0 THEN RoundPos(n, d) ELSE 0 - RoundPos(0 - n, d)

\* float +, -, / (each correctly rounded)
FAdd(a, b) == RoundQ(a + b, 1)
FSub(a, b) == RoundQ(a - b, 1)
FDiv(a, b) == RoundQ(a * One, b)

\* the float a decimal literal t/10 is read as (json.load, Python literals)
Dec(t) == RoundQ(t * One, 10)

Max2(a, b) == IF a >= b THEN a ELSE b
Min2(a, b) == IF a <= b THEN a ELSE b

\* ------------------------------------------------------------ JSON values
\* a number, a string (sequence of code points), null, or an absent key
Num(n) == [t |-> "num", v |-> n]
None == [t |-> "none", v |-> 0]
Missing == [t |-> "missing", v |-> 0]
Str(s) == [t |-> "str", v |-> s]
NoneS == [t |-> "none", v |-> <<>>]
MissingS == [t |-> "missing", v |-> <<>>]

\* dict.get(key, default): the default only when the key is absent
Get(x, default) == IF x.t = "missing" THEN default ELSE x

\* ---------------------------------------------------------------- strings
\* '[' (the sound-effect marker)
LBracket == 91

\* the characters str.strip() removes (ASCII whitespace)
IsSpace(c) == c \in {9, 10, 11, 12, 13, 32}

RECURSIVE LStrip(_)
LStrip(s) == IF s # <<>> /\ IsSpace(Head(s)) THEN LStrip(Tail(s)) ELSE s

RECURSIVE RStrip(_)
RStrip(s) ==
    IF s # <<>> /\ IsSpace(s[Len(s)])
    THEN RStrip(SubSeq(s, 1, Len(s) - 1))
    ELSE s

\* str.strip()
Strip(s) == RStrip(LStrip(s))

\* str.startswith(c) for a one-character prefix
StartsWith(s, c) == s # <<>> /\ s[1] = c

\* the Thai block U+0E00..U+0E7F
ThaiLo == 3584
ThaiHi == 3711

\* ------------------------------------------------------- transcript data
\* what find_transcript_with_content returns: None, the dict it returns
\* when the file cannot be read (no "transcript_data" key), or the dict
\* with the file's cue list
NoData == [kind |-> "none", cues |-> <<>>]
LoadFailed == [kind |-> "failed", cues |-> <<>>]
Loaded(cues) == [kind |-> "loaded", cues |-> cues]

\* truth value of the returned object (None is falsy, the dicts are not)
Truthy(data) == data.kind # "none"

RawCue(text, start, duration) ==
    [text |-> text, start |-> start, duration |-> duration]

SubtitleEntry(text, start, duration) ==
    [text |-> text, start |-> start, duration |-> duration]

\* ------------------------------------------- extract_subtitle_entries
\* the result of a call: the returned list, or an exception
Returned(entries) == [raised |-> FALSE, entries |-> entries]
Raised == [raised |-> TRUE, entries |-> <<>>]

\* a cue that drops the sound-effect filter
IsSpeechNoFilter(text) == text # <<>>

\* the filter on the stripped text: not empty, not a sound effect
IsSpeech(text) == text # <<>> /\ ~StartsWith(text, LBracket)

RECURSIVE ExtractLoop(_, _)
ExtractLoop(items, entries) ==
    IF items = <<>> THEN Returned(entries)
    ELSE LET item == Head(items)
             got == Get(item.text, Str(<<>>))
         IN  IF got.t # "str"
             THEN Raised          \* None.strip(): AttributeError
             ELSE LET text == Strip(got.v)
                  IN  IF IsSpeech(text)
                      THEN ExtractLoop(Tail(items),
                               Append(entries,
                                   SubtitleEntry(text,
                                       Get(item.start, Num(0)),
                                       Get(item.duration, Num(0)))))
                      ELSE ExtractLoop(Tail(items), entries)

extract_subtitle_entries(data) ==
    IF ~Truthy(data) \/ data.kind = "failed" \/ data.cues = <<>>
    THEN Returned(<<>>)
    ELSE ExtractLoop(data.cues, <<>>)

\* -------------------------------------------------------------- variables
VARIABLES
    ex_in,              \* extract_subtitle_entries: the argument
    ex_out,             \* extract_subtitle_entries: the outcome of the call
    al_thai,            \* align_subtitles: thai_subs
    al_eng,             \* align_subtitles: eng_subs
    overlap_threshold,  \* SubtitleAlignmentService.overlap_threshold
    thai_idx,           \* align_subtitles: thai_idx
    eng_idx,            \* align_subtitles: eng_idx
    aligned,            \* align_subtitles: aligned
    al_pc,              \* align_subtitles: position of the call
    dict_freq,          \* dict_service_freq: search_word's entries per word
    dict_full,          \* dict_service_full: search_word's entries per word
    word_cache,         \* word_util._word_cache
    translit_cache,     \* the lru_cache of _cached_transliterate
    calls,              \* calls made to transliterate and to search_word
    ncalls,             \* calls of process_thai_word, per word
    first_result,       \* what the first call for each word returned
    word_call,          \* the last call of process_thai_word
    store,              \* the transcript index and files, per language
    result,             \* the last outcome of process_video_for_learning
    runs,               \* calls of process_video_for_learning so far
    prev_result,        \* the outcome of the call before the last one
    faults,             \* the <<collaborator, word>> calls that raise
    race_word,          \* the word two concurrent calls are made for
    t_pc,               \* where each concurrent call stands
    t_val,              \* the value each concurrent call has computed
    t_ret,              \* what each concurrent call returned
    batch_call,         \* the last call of process_thai_words_batch
    ops,                \* calls of the batch and of clear_word_cache so far
    sd_entries,         \* the entries of a dictionary
    sd_term,            \* the query of a search
    sd_out,             \* what the last dictionary operation returned
    scan_steps,         \* align_subtitles: passes of the last inner loop
    sent_text,          \* process_thai_sentence: thai_text
    sent_out,           \* process_thai_sentence: the outcome of the call
    index_file,         \* the keys of the entries in index.json
    sv_pc,              \* where each save_transcript_to_file call stands
    sv_index            \* the index each save call has loaded

vars == <<ex_in, ex_out, al_thai, al_eng, overlap_threshold,
          thai_idx, eng_idx, aligned, al_pc,
          dict_freq, dict_full, word_cache, translit_cache, calls,
          ncalls, first_result, word_call, store, result, runs,
          prev_result, faults, race_word, t_pc, t_val, t_ret,
          batch_call, ops, sd_entries, sd_term, sd_out,
          scan_steps, sent_text, sent_out, index_file, sv_pc, sv_index>>

extractVars == <<ex_in, ex_out>>
alignVars == <<al_thai, al_eng, thai_idx, eng_idx, aligned, al_pc, scan_steps>>
dictVars == <<dict_freq, dict_full, faults>>
cacheVars == <<word_cache, translit_cache, calls>>
wordVars == <<ncalls, first_result, word_call>>
pipeVars == <<store, result, runs, prev_result>>
raceVars == <<race_word, t_pc, t_val, t_ret>>
batchVars == <<batch_call, ops>>
searchVars == <<sd_entries, sd_term, sd_out>>
sentVars == <<sent_text, sent_out>>
indexVars == <<index_file, sv_pc, sv_index>>

\* sequences over S of length 0..n
SeqsUpTo(S, n) == UNION {[1..k -> S] : k \in 0..n}

\* ---------------------------------------------- inputs of the extractor
\* a Thai letter (U+0E01) for the cue texts
KoKai == ThaiLo + 1
TextMenu ==
    { Str(<<>>),                         \* ""
      Str(<<32, 32, 32>>),               \* "   "
      Str(<<LBracket, KoKai, 93>>),      \* "[x]", as "[Music]"
      Str(<<KoKai>>),                    \* a word, as "Hello"
      Str(<<32, KoKai, 32>>),            \* a word in spaces
      Str(<<32, LBracket, KoKai>>),      \* spaces, then a bracket
      Str(<<KoKai, LBracket>>),          \* a bracket that is not leading
      NoneS,                             \* "text": null
      MissingS }                         \* no "text" key

NumberMenu == {Missing, None, Num(0), Num(Dec(15)), Num(0 - Dec(10))}

\* every text with one timing, and every timing with one text
RawCueMenu ==
    {RawCue(t, Num(Dec(15)), Num(Dec(20))) : t \in TextMenu}
    \cup {RawCue(Str(<<KoKai>>), s, Num(Dec(20))) : s \in NumberMenu}
    \cup {RawCue(Str(<<KoKai>>), Num(0), d) : d \in NumberMenu}

ExtractInputs ==
    {NoData, LoadFailed} \cup {Loaded(c) : c \in SeqsUpTo(RawCueMenu, MaxCues)}

NotCalled == [called |-> FALSE, raised |-> FALSE, entries |-> <<>>]
Outcome(r) == [called |-> TRUE, raised |-> r.raised, entries |-> r.entries]

IdleExtract == ex_in = NoData /\ ex_out = NotCalled

\* a call of extract_subtitle_entries(ex_in)
ExtractCall ==
    /\ ~ex_out.called
    /\ ex_out' = Outcome(extract_subtitle_entries(ex_in))
    /\ UNCHANGED ex_in
    /\ UNCHANGED <<alignVars, overlap_threshold>>
    /\ UNCHANGED <<dictVars, cacheVars, wordVars, pipeVars>>
    /\ UNCHANGED <<raceVars, batchVars, searchVars, sentVars, indexVars>>

\* ----------------------------------------------------- calculate_overlap
IsNum(x) == x.t = "num"

\* SubtitleEntry.end (both fields numbers)
End(e) == FAdd(e.start.v, e.duration.v)

calculate_overlap(thai_sub, eng_sub) ==
    LET overlap_start == Max2(thai_sub.start.v, eng_sub.start.v)
        overlap_end == Min2(End(thai_sub), End(eng_sub))
        overlap_duration == FSub(overlap_end, overlap_start)
        min_duration == Min2(thai_sub.duration.v, eng_sub.duration.v)
    IN  IF overlap_start >= overlap_end THEN 0
        ELSE IF min_duration > 0 THEN FDiv(overlap_duration, min_duration)
        ELSE 0

\* ------------------------------------------------------- align_subtitles
\* ti, ei: the positions of the two referenced entries in their lists
AlignedSubtitle(thai, english, overlap_score, ti, ei) ==
    [thai |-> thai, english |-> english, overlap_score |-> overlap_score,
     ti |-> ti, ei |-> ei]

\* a scan that starts with the target under the cursor as its match
NoBestFound(idx) ==
    [found |-> TRUE, best_score |-> 0, best_eng_idx |-> idx,
     raised |-> FALSE, steps |-> 0]

\* best_match / best_score / best_eng_idx before the scan
NoBest(idx) ==
    [found |-> FALSE, best_score |-> 0, best_eng_idx |-> idx,
     raised |-> FALSE, steps |-> 0]

\* a test that lets a later target of equal score replace the match
BetterOrEqual(overlap, best_score, threshold) ==
    overlap >= best_score /\ overlap >= threshold

\* "overlap > best_score and overlap >= self.overlap_threshold"
Better(overlap, best_score, threshold) ==
    overlap > best_score /\ overlap >= threshold

\* a break at the first target that starts after the source starts
StopsScanAtStart(eng_sub, thai_sub) == eng_sub.start.v > thai_sub.start.v

\* eng_sub.start > thai_sub.end: no later target of a sorted list overlaps
StopsScan(eng_sub, thai_sub) == eng_sub.start.v > End(thai_sub)

\* the inner while loop from temp_eng_idx on (indices are 0-based);
\* steps counts the passes through the loop body
RECURSIVE ScanTargets(_, _, _, _, _)
ScanTargets(thai_sub, eng_subs, threshold, temp_eng_idx, best) ==
    IF ~(temp_eng_idx < Len(eng_subs)) THEN best
    ELSE
      LET eng_sub == eng_subs[temp_eng_idx + 1]
          passed == [best EXCEPT !.steps = @ + 1]
      IN  \* eng_sub.start > thai_sub.end: TypeError on a None operand
          IF ~IsNum(thai_sub.start) \/ ~IsNum(thai_sub.duration)
                \/ ~IsNum(eng_sub.start)
          THEN [passed EXCEPT !.raised = TRUE]
          ELSE IF StopsScan(eng_sub, thai_sub) THEN passed
          \* eng_sub.end < thai_sub.start
          ELSE IF ~IsNum(eng_sub.duration)
          THEN [passed EXCEPT !.raised = TRUE]
          ELSE IF End(eng_sub) < thai_sub.start.v
          THEN ScanTargets(thai_sub, eng_subs, threshold,
                           temp_eng_idx + 1, passed)
          ELSE
            LET overlap == calculate_overlap(thai_sub, eng_sub)
            IN  IF Better(overlap, passed.best_score, threshold)
                THEN ScanTargets(thai_sub, eng_subs, threshold,
                         temp_eng_idx + 1,
                         [found |-> TRUE, best_score |-> overlap,
                          best_eng_idx |-> temp_eng_idx, raised |-> FALSE,
                          steps |-> passed.steps])
                ELSE ScanTargets(thai_sub, eng_subs, threshold,
                         temp_eng_idx + 1, passed)

\* a cursor that moves past the matched target
NextEngIdxPast(cur, best) ==
    IF best.found /\ best.best_eng_idx >= cur
    THEN Max2(cur, best.best_eng_idx + 1)
    ELSE cur

\* the cursor after an iteration of the outer loop
NextEngIdx(cur, best) ==
    IF best.found /\ best.best_eng_idx >= cur
    THEN Max2(cur, best.best_eng_idx)
    ELSE cur

\* a scan that starts over at the first target for every source
ScanStartZero(cur) == 0

\* "temp_eng_idx = eng_idx": the scan starts at the cursor
ScanStart(cur) == cur

\* one iteration of the outer while loop on st = the loop's variables
AlignIter(thai_subs, eng_subs, threshold, st) ==
    LET thai_sub == thai_subs[st.thai_idx + 1]
        best == ScanTargets(thai_sub, eng_subs, threshold,
                            ScanStart(st.eng_idx), NoBest(st.eng_idx))
    IN  IF best.raised THEN [st EXCEPT !.raised = TRUE, !.steps = best.steps]
        ELSE [thai_idx |-> st.thai_idx + 1,
              steps |-> best.steps,
              eng_idx |-> NextEngIdx(st.eng_idx, best),
              aligned |->
                  IF best.found
                  THEN Append(st.aligned,
                           AlignedSubtitle(thai_sub,
                               eng_subs[best.best_eng_idx + 1],
                               best.best_score,
                               st.thai_idx, best.best_eng_idx))
                  ELSE st.aligned,
              raised |-> FALSE]

\* the condition of the outer while loop
LoopCond(thai_subs, eng_subs, st) ==
    st.thai_idx < Len(thai_subs) /\ st.eng_idx < Len(eng_subs)

RECURSIVE AlignLoop(_, _, _, _)
AlignLoop(thai_subs, eng_subs, threshold, st) ==
    IF st.raised \/ ~LoopCond(thai_subs, eng_subs, st) THEN st
    ELSE AlignLoop(thai_subs, eng_subs, threshold,
                   AlignIter(thai_subs, eng_subs, threshold, st))

AlignStart ==
    [thai_idx |-> 0, eng_idx |-> 0, aligned |-> <<>>, raised |-> FALSE,
     steps |-> 0]

\* the whole call: [raised, entries] with entries the aligned pairs
align_subtitles(thai_subs, eng_subs, threshold) ==
    IF thai_subs = <<>> \/ eng_subs = <<>> THEN Returned(<<>>)
    ELSE LET st == AlignLoop(thai_subs, eng_subs, threshold, AlignStart)
         IN  IF st.raised THEN Raised ELSE Returned(st.aligned)

\* ------------------------------------------------ inputs of the aligner
\* an entry starting at s/10 seconds that lasts d/10 seconds
Timed(s, d) ==
    SubtitleEntry(<<KoKai>>, Num(RoundQ(s * One, 10)),
                  Num(RoundQ(d * One, 10)))

AlignMenu ==
    { Timed(0, 50), Timed(50, 50), Timed(0, 100), Timed(1, 2) }

\* the default of SubtitleAlignmentService.__init__: 0.3
DefaultThreshold == Dec(3)

Thresholds == {0, DefaultThreshold, One}

IdleAlign ==
    /\ al_thai = <<>> /\ al_eng = <<>>
    /\ thai_idx = 0 /\ eng_idx = 0 /\ aligned = <<>>
    /\ al_pc = "idle" /\ scan_steps = 0

\* lines 75-81: the empty-input return, or the start of the loop
AlignEnter ==
    /\ al_pc = "call"
    /\ aligned' = <<>>
    /\ thai_idx' = 0
    /\ eng_idx' = 0
    /\ scan_steps' = 0
    /\ al_pc' = IF al_thai = <<>> \/ al_eng = <<>> THEN "returned"
                ELSE "loop"
    /\ UNCHANGED <<al_thai, al_eng, overlap_threshold>>
    /\ UNCHANGED extractVars
    /\ UNCHANGED <<dictVars, cacheVars, wordVars, pipeVars>>
    /\ UNCHANGED <<raceVars, batchVars, searchVars, sentVars, indexVars>>

LoopState ==
    [thai_idx |-> thai_idx, eng_idx |-> eng_idx, aligned |-> aligned,
     raised |-> FALSE, steps |-> scan_steps]

\* lines 83-128: one iteration of the outer loop
AlignStep ==
    /\ al_pc = "loop"
    /\ LoopCond(al_thai, al_eng, LoopState)
    /\ \E st \in {AlignIter(al_thai, al_eng, overlap_threshold, LoopState)} :
           /\ thai_idx' = st.thai_idx
           /\ eng_idx' = st.eng_idx
           /\ aligned' = st.aligned
           /\ scan_steps' = st.steps
           /\ al_pc' = IF st.raised THEN "raised" ELSE "loop"
    /\ UNCHANGED <<al_thai, al_eng, overlap_threshold>>
    /\ UNCHANGED extractVars
    /\ UNCHANGED <<dictVars, cacheVars, wordVars, pipeVars>>
    /\ UNCHANGED <<raceVars, batchVars, searchVars, sentVars, indexVars>>

\* line 130: the loop condition fails, the call returns aligned
AlignReturn ==
    /\ al_pc = "loop"
    /\ ~LoopCond(al_thai, al_eng, LoopState)
    /\ al_pc' = "returned"
    /\ UNCHANGED <<al_thai, al_eng, overlap_threshold,
                   thai_idx, eng_idx, aligned, scan_steps>>
    /\ UNCHANGED extractVars
    /\ UNCHANGED <<dictVars, cacheVars, wordVars, pipeVars>>
    /\ UNCHANGED <<raceVars, batchVars, searchVars, sentVars, indexVars>>

\* --------------------------------------------------- dictionary lookups
\* a DictionaryEntry: its id, the fields get_english_translations reads,
\* and the Thai word, synonym and related-term fields (None by default)
DictionaryEntry(id, e_dict, e_dict_v, rom_english) ==
    [id |-> id, t_word |-> NoneS, t_syn |-> NoneS, e_related |-> NoneS,
     e_dict |-> e_dict, e_dict_v |-> e_dict_v, rom_english |-> rom_english]

\* DictionaryService.search_word: the entries of the SearchResult; a
\* service is held as the entries its search returns for each word
search_word(service, word) == service[word]

\* Python's order on strings: code point by code point
RECURSIVE LexLess(_, _)
LexLess(a, b) ==
    IF b = <<>> THEN FALSE
    ELSE IF a = <<>> THEN TRUE
    ELSE IF Head(a) # Head(b) THEN Head(a) < Head(b)
    ELSE LexLess(Tail(a), Tail(b))

\* sorted(S) for a set S of strings
RECURSIVE Sorted(_)
Sorted(S) ==
    IF S = {} THEN <<>>
    ELSE LET m == CHOOSE x \in S : \A y \in S : x = y \/ LexLess(x, y)
         IN  <<m>> \o Sorted(S \ {m})

\* an entry that contributes every field that is not None
EntryTranslationAll(entry) ==
    {f.v : f \in {g \in {entry.e_dict, entry.e_dict_v, entry.rom_english} :
                      g.t # "none"}}

\* the translation one entry contributes: the first field that is not None
EntryTranslation(entry) ==
    IF entry.e_dict.t # "none" THEN {entry.e_dict.v}
    ELSE IF entry.e_dict_v.t # "none" THEN {entry.e_dict_v.v}
    ELSE IF entry.rom_english.t # "none" THEN {entry.rom_english.v}
    ELSE {}

\* SearchResult.get_english_translations
get_english_translations(entries) ==
    Sorted(UNION {EntryTranslation(entries[i]) : i \in 1..Len(entries)})

\* "search_result.get_english_translations() if search_result else []"
TranslationsOf(entries) ==
    IF Len(entries) > 0 THEN get_english_translations(entries) ELSE <<>>

\* ----------------------------------------------------- process_thai_word
\* transliterate(word, engine="icu"): a Latin letter for each Thai letter
transliterate(word) == [i \in 1..Len(word) |-> word[i] - ThaiLo + 96]

TokenizedThaiWord(thai, transliterated, english_translations) ==
    [thai |-> thai, transliterated |-> transliterated,
     english_translations |-> english_translations]

\* a cache test that never hits
CacheHitNever(cache, word) == FALSE

\* "word in _word_cache"
CacheHit(cache, word) == word \in DOMAIN cache

\* a fallback test that ignores the primary list
NeedsFallbackAlways(english_translations, has_full) == has_full

\* "len(english_translations) == 0 and dict_service_full is not None"
NeedsFallback(english_translations, has_full) ==
    Len(english_translations) = 0 /\ has_full

Bump(f, w) == [f EXCEPT ![w] = @ + 1]

\* a hit that returns the bare word, not the stored value
HitValueBare(cache, word) == TokenizedThaiWord(word, <<>>, <<>>)

\* "return _word_cache[word]"
HitValue(cache, word) == cache[word]

\* a store that is skipped
CacheStoreSkip(cache, word, processed_word) == cache

\* "_word_cache[word] = processed_word"
CacheStore(cache, word, processed_word) == (word :> processed_word) @@ cache

\* a collaborator whose faults are swallowed
RaisesNever(ws, collaborator, word) == FALSE

\* the call of a collaborator ("translit", "freq" or "full") for a word
\* raises when the collaborator is faulty for that word
Raises(ws, collaborator, word) == <<collaborator, word>> \in ws.faults

NoWord == TokenizedThaiWord(<<>>, <<>>, <<>>)

\* process_thai_word(word, freq, full) on the state ws = [cache, tcache,
\* calls, faults]; has_full says that dict_service_full is not None.  The
\* value is the state after the call, what the call returned or that it
\* raised, and what it did.  Nothing in the function catches an exception,
\* so a call that raises leaves before the store of line 47.
process_thai_word(ws, word, freq, full, has_full) ==
    IF CacheHit(ws.cache, word)
    THEN [ws |-> ws, result |-> HitValue(ws.cache, word), hit |-> TRUE,
          raised |-> FALSE, freq_lookups |-> 0, full_lookups |-> 0]
    ELSE
      LET lru_hit == word \in ws.tcache
          translit_raises == ~lru_hit /\ Raises(ws, "translit", word)
          transliterated == transliterate(word)
          freq_called == ~translit_raises
          freq_raises == freq_called /\ Raises(ws, "freq", word)
          primary == TranslationsOf(search_word(freq, word))
          fallback == /\ freq_called /\ ~freq_raises
                      /\ NeedsFallback(primary, has_full)
          full_raises == fallback /\ Raises(ws, "full", word)
          english_translations ==
              IF fallback THEN TranslationsOf(search_word(full, word))
              ELSE primary
          res == TokenizedThaiWord(word, transliterated,
                                   english_translations)
          raised == translit_raises \/ freq_raises \/ full_raises
      IN  [ws |->
             [cache |-> IF raised THEN ws.cache
                        ELSE CacheStore(ws.cache, word, res),
              tcache |-> IF translit_raises THEN ws.tcache
                         ELSE ws.tcache \cup {word},
              calls |->
                [translit |-> IF lru_hit THEN ws.calls.translit
                              ELSE Bump(ws.calls.translit, word),
                 freq |-> IF freq_called THEN Bump(ws.calls.freq, word)
                          ELSE ws.calls.freq,
                 full |-> IF fallback THEN Bump(ws.calls.full, word)
                          ELSE ws.calls.full],
              faults |-> ws.faults],
           result |-> IF raised THEN NoWord ELSE res,
           hit |-> FALSE, raised |-> raised,
           freq_lookups |-> IF freq_called THEN 1 ELSE 0,
           full_lookups |-> IF fallback THEN 1 ELSE 0]

Words == {<<KoKai>>, <<KoKai + 1>>}

\* English strings "a", "b", "c"
EnA == Str(<<97>>)
EnB == Str(<<98>>)
EnC == Str(<<99>>)

\* entry lists a search can return: nothing, entries with one or several
\* translation fields, and an entry with no translation field at all
EntriesNone == <<>>
EntriesA == <<DictionaryEntry(1, EnA, NoneS, NoneS)>>
EntriesBlank == <<DictionaryEntry(2, NoneS, NoneS, NoneS)>>
EntriesCB ==
    <<DictionaryEntry(3, NoneS, EnC, EnA), DictionaryEntry(4, NoneS, NoneS, EnB)>>

FreqMenu == {EntriesNone, EntriesA, EntriesBlank}
FullMenu == {EntriesNone, EntriesCB, EntriesA}

NoCalls == [w \in Words |-> 0]
EmptyCache == [w \in {} |-> 0]
WordState ==
    [cache |-> word_cache, tcache |-> translit_cache, calls |-> calls,
     faults |-> faults]

NoWordCall ==
    [called |-> FALSE, word |-> <<>>, has_full |-> FALSE, hit |-> FALSE,
     raised |-> FALSE, freq_lookups |-> 0, full_lookups |-> 0,
     result |-> NoWord]

FreshCache ==
    /\ word_cache = EmptyCache
    /\ translit_cache = {}
    /\ calls = [translit |-> NoCalls, freq |-> NoCalls, full |-> NoCalls]

IdleWord ==
    /\ ncalls = NoCalls
    /\ first_result = EmptyCache
    /\ word_call = NoWordCall

IdleDict ==
    /\ dict_freq = [w \in Words |-> EntriesNone]
    /\ dict_full = [w \in Words |-> EntriesNone]
    /\ faults = {}

\* a call process_thai_word(word, dict_freq, dict_full), or with no
\* dict_service_full when has_full is FALSE
ProcessThaiWord(word, has_full) ==
    /\ ncalls[word] < MaxCalls
    /\ \E r \in {process_thai_word(WordState, word, dict_freq, dict_full,
                                   has_full)} :
         /\ word_cache' = r.ws.cache
         /\ translit_cache' = r.ws.tcache
         /\ calls' = r.ws.calls
         /\ word_call' =
              [called |-> TRUE, word |-> word, has_full |-> has_full,
               hit |-> r.hit, raised |-> r.raised,
               freq_lookups |-> r.freq_lookups,
               full_lookups |-> r.full_lookups, result |-> r.result]
         /\ first_result' =
              IF word \in DOMAIN first_result \/ r.raised THEN first_result
              ELSE (word :> r.result) @@ first_result
    /\ ncalls' = Bump(ncalls, word)
    /\ UNCHANGED <<extractVars, alignVars, overlap_threshold>>
    /\ UNCHANGED <<dictVars, pipeVars>>
    /\ UNCHANGED <<raceVars, batchVars, searchVars, sentVars, indexVars>>

\* ------------------------------------------------- process_thai_sentence
\* a test whose range starts after the first two consonants
is_thai_word_from_third(text) ==
    text # <<>> /\ \E i \in 1..Len(text) : text[i] > KoKai + 1 /\ text[i] <= ThaiHi

\* is_thai_word: the text holds a character of U+0E00..U+0E7F
is_thai_word(text) ==
    text # <<>> /\ \E i \in 1..Len(text) : text[i] >= ThaiLo /\ text[i] <= ThaiHi

\* the tokenizer cuts a text into runs of Thai letters, runs of whitespace
\* and runs of other characters
CharClass(c) ==
    IF c >= ThaiLo /\ c <= ThaiHi THEN "thai"
    ELSE IF IsSpace(c) THEN "space"
    ELSE "other"

RECURSIVE Runs(_, _)
Runs(s, acc) ==
    IF s = <<>> THEN acc
    ELSE IF acc # <<>> /\ CharClass(acc[Len(acc)][1]) = CharClass(Head(s))
    THEN Runs(Tail(s),
              [acc EXCEPT ![Len(acc)] = Append(@, Head(s))])
    ELSE Runs(Tail(s), Append(acc, <<Head(s)>>))

\* word_tokenize(text, keep_whitespace=False)
word_tokenize(text) ==
    SelectSeq(Runs(text, <<>>), LAMBDA tok : ~IsSpace(tok[1]))

\* pythainlp normalize: zero-width characters are removed
normalize(text) == SelectSeq(text, LAMBDA c : c \notin {8203, 8204})

\* the loop of process_thai_sentence over the tokens
RECURSIVE AnnotateTokens(_, _, _, _, _)
AnnotateTokens(tokens, ws, freq, full, word_breakdown) ==
    IF tokens = <<>>
    THEN [ws |-> ws, words |-> word_breakdown, raised |-> FALSE]
    ELSE LET token == Head(tokens)
         IN  IF Strip(token) # <<>> /\ is_thai_word(token)
             THEN LET r == process_thai_word(ws, token, freq, full, TRUE)
                  IN  IF r.raised
                      THEN [ws |-> r.ws, words |-> word_breakdown,
                            raised |-> TRUE]
                      ELSE AnnotateTokens(Tail(tokens), r.ws, freq, full,
                                          Append(word_breakdown, r.result))
             ELSE AnnotateTokens(Tail(tokens), ws, freq, full,
                                 word_breakdown)

process_thai_sentence(thai_text, ws, freq, full) ==
    AnnotateTokens(word_tokenize(normalize(thai_text)), ws, freq, full, <<>>)

\* ----------------------------------------------- create_learning_entries
\* an entry that takes its times from the English side
LearningEntryEnglishTimes(aligned_sub, word_breakdown) ==
    [thai_text |-> aligned_sub.thai.text,
     english_text |-> aligned_sub.english.text,
     start_time |-> aligned_sub.english.start,
     duration |-> aligned_sub.english.duration,
     overlap_score |-> aligned_sub.overlap_score,
     word_breakdown |-> word_breakdown]

LearningEntry(aligned_sub, word_breakdown) ==
    [thai_text |-> aligned_sub.thai.text,
     english_text |-> aligned_sub.english.text,
     start_time |-> aligned_sub.thai.start,
     duration |-> aligned_sub.thai.duration,
     overlap_score |-> aligned_sub.overlap_score,
     word_breakdown |-> word_breakdown]

RECURSIVE CreateEntries(_, _, _, _, _)
CreateEntries(aligned_subs, ws, freq, full, learning_entries) ==
    IF aligned_subs = <<>>
    THEN [ws |-> ws, entries |-> learning_entries, raised |-> FALSE]
    ELSE LET b == process_thai_sentence(Head(aligned_subs).thai.text,
                                        ws, freq, full)
         IN  IF b.raised
             THEN [ws |-> b.ws, entries |-> learning_entries,
                   raised |-> TRUE]
             ELSE CreateEntries(Tail(aligned_subs), b.ws, freq, full,
                      Append(learning_entries,
                             LearningEntry(Head(aligned_subs), b.words)))

create_learning_entries(aligned_subs, ws, freq, full) ==
    CreateEntries(aligned_subs, ws, freq, full, <<>>)

\* -------------------------------------------- find_transcript_with_content
\* the state of the index and of the transcript file for one language
Unindexed == [kind |-> "unindexed", cues |-> <<>>]
FileGone == [kind |-> "gone", cues |-> <<>>]
Unreadable == [kind |-> "unreadable", cues |-> <<>>]
Stored(cues) == [kind |-> "stored", cues |-> cues]

find_transcript_with_content(file) ==
    IF file.kind \in {"unindexed", "gone"} THEN NoData
    ELSE IF file.kind = "unreadable" THEN LoadFailed
    ELSE Loaded(file.cues)

\* ------------------------------------------ process_video_for_learning
NoError == [msg |-> "", langs |-> <<>>]

NoResult ==
    [called |-> FALSE, raised |-> FALSE, success |-> FALSE,
     error |-> NoError, learning_entries |-> <<>>,
     total_thai_subs |-> 0, total_english_subs |-> 0,
     aligned_count |-> 0, alignment_rate |-> 0]

Failure(msg, langs) ==
    [NoResult EXCEPT !.called = TRUE,
                     !.error = [msg |-> msg, langs |-> langs]]

Exception == [NoResult EXCEPT !.called = TRUE, !.raised = TRUE]

\* a list that always names both languages
MissingBoth(thai_data, english_data) == <<"Thai", "English">>

\* the list "missing" of lines 205-209
MissingLanguages(thai_data, english_data) ==
    (IF ~Truthy(thai_data) THEN <<"Thai">> ELSE <<>>)
    \o (IF ~Truthy(english_data) THEN <<"English">> ELSE <<>>)

\* a rate that is the count, not the quotient
AlignmentCount(aligned_subs, thai_subs) ==
    IF thai_subs # <<>> THEN Len(aligned_subs) * One ELSE 0

\* "len(aligned_subs) / len(thai_subs) if thai_subs else 0"
AlignmentRate(aligned_subs, thai_subs) ==
    IF thai_subs # <<>> THEN RoundQ(Len(aligned_subs) * One, Len(thai_subs))
    ELSE 0

\* the call on the transcripts of st and the word state ws: the result and
\* the word state after it
process_video_for_learning(st, ws, threshold, freq, full) ==
    LET thai_data == find_transcript_with_content(st["Thai"])
        english_data == find_transcript_with_content(st["English"])
        thai_x == extract_subtitle_entries(thai_data)
        eng_x == extract_subtitle_entries(english_data)
        thai_subs == thai_x.entries
        eng_subs == eng_x.entries
        al == align_subtitles(thai_subs, eng_subs, threshold)
        made == create_learning_entries(al.entries, ws, freq, full)
    IN  IF ~Truthy(thai_data) \/ ~Truthy(english_data)
        THEN [ws |-> ws,
              result |-> Failure("Missing subtitles for",
                                 MissingLanguages(thai_data, english_data))]
        ELSE IF thai_x.raised \/ eng_x.raised
        THEN [ws |-> ws, result |-> Exception]
        ELSE IF thai_subs = <<>> \/ eng_subs = <<>>
        THEN [ws |-> ws,
              result |-> Failure("No valid subtitle entries found", <<>>)]
        ELSE IF al.raised
        THEN [ws |-> ws, result |-> Exception]
        ELSE IF al.entries = <<>>
        THEN [ws |-> ws,
              result |-> Failure("Could not align any subtitles", <<>>)]
        ELSE IF made.raised
        THEN [ws |-> made.ws, result |-> Exception]
        ELSE [ws |-> made.ws,
              result |->
                [called |-> TRUE, raised |-> FALSE, success |-> TRUE,
                 error |-> NoError,
                 learning_entries |-> made.entries,
                 total_thai_subs |-> Len(thai_subs),
                 total_english_subs |-> Len(eng_subs),
                 aligned_count |-> Len(al.entries),
                 alignment_rate |-> AlignmentRate(al.entries, thai_subs)]]

\* cue texts of the pipeline: two Thai words, a Thai word and a Latin one,
\* a sound effect
TwoWords == <<KoKai, 32, KoKai + 1>>
WordAndLatin == <<KoKai, 32, 97>>
SoundEffect == <<LBracket, KoKai, 93>>

PipeCueMenu ==
    { RawCue(Str(TwoWords), Num(0), Num(Dec(20))),
      RawCue(Str(WordAndLatin), Num(Dec(100)), Num(Dec(20))),
      RawCue(Str(<<KoKai>>), Num(Dec(1)), Num(Dec(2))),
      RawCue(Str(SoundEffect), Num(0), Num(Dec(20))),
      RawCue(NoneS, Num(0), Num(Dec(20))),
      RawCue(Str(<<KoKai + 1>>), None, Num(Dec(20))) }

StoreMenu ==
    {Unindexed, FileGone, Unreadable}
    \cup {Stored(c) : c \in SeqsUpTo(PipeCueMenu, MaxPipeCues)}

Langs == {"Thai", "English"}

IdlePipe ==
    /\ store = [l \in Langs |-> Unindexed]
    /\ result = NoResult
    /\ prev_result = NoResult
    /\ runs = 0

\* a call process_video_for_learning(video_id)
ProcessVideo ==
    /\ runs < MaxRuns
    /\ \E r \in {process_video_for_learning(store, WordState,
                     overlap_threshold, dict_freq, dict_full)} :
         /\ result' = r.result
         /\ prev_result' = result
         /\ word_cache' = r.ws.cache
         /\ translit_cache' = r.ws.tcache
         /\ calls' = r.ws.calls
    /\ runs' = runs + 1
    /\ UNCHANGED <<store, overlap_threshold>>
    /\ UNCHANGED <<extractVars, alignVars, dictVars, wordVars>>
    /\ UNCHANGED <<raceVars, batchVars, searchVars, sentVars, indexVars>>

\* ------------------------------ two concurrent calls of process_thai_word
\* The two calls are made as process_thai_sentence makes them (line 159),
\* with both dictionary services.  A call takes three steps: the cache test
\* of lines 25-26, the computation of lines 29-44 and the store of line 47
\* with the return of line 49.  The interpreter runs each of the dictionary
\* operations of a step atomically.
Threads == {1, 2}

IdleRace ==
    /\ race_word = <<>>
    /\ t_pc = [t \in Threads |-> "idle"]
    /\ t_val = [t \in Threads |-> NoWord]
    /\ t_ret = [t \in Threads |-> NoWord]

\* lines 25-26
RaceCheck(t) ==
    /\ t_pc[t] = "check"
    /\ IF CacheHit(word_cache, race_word)
       THEN /\ t_ret' = [t_ret EXCEPT ![t] = HitValue(word_cache, race_word)]
            /\ t_pc' = [t_pc EXCEPT ![t] = "done"]
       ELSE /\ t_pc' = [t_pc EXCEPT ![t] = "compute"]
            /\ UNCHANGED t_ret
    /\ UNCHANGED <<race_word, t_val>>
    /\ UNCHANGED <<extractVars, alignVars, overlap_threshold>>
    /\ UNCHANGED <<dictVars, cacheVars, wordVars, pipeVars>>
    /\ UNCHANGED <<batchVars, searchVars, sentVars, indexVars>>

\* lines 29-44: what the call computes when the test of line 25 has failed
RaceCompute(t) ==
    /\ t_pc[t] = "compute"
    /\ \E r \in {process_thai_word([WordState EXCEPT !.cache = EmptyCache],
                                   race_word, dict_freq, dict_full, TRUE)} :
         /\ t_val' = [t_val EXCEPT ![t] = r.result]
         /\ translit_cache' = r.ws.tcache
         /\ calls' = r.ws.calls
    /\ t_pc' = [t_pc EXCEPT ![t] = "store"]
    /\ UNCHANGED <<race_word, t_ret, word_cache>>
    /\ UNCHANGED <<extractVars, alignVars, overlap_threshold>>
    /\ UNCHANGED <<dictVars, wordVars, pipeVars>>
    /\ UNCHANGED <<batchVars, searchVars, sentVars, indexVars>>

\* lines 47-49
RaceStore(t) ==
    /\ t_pc[t] = "store"
    /\ word_cache' = CacheStore(word_cache, race_word, t_val[t])
    /\ t_ret' = [t_ret EXCEPT ![t] = t_val[t]]
    /\ t_pc' = [t_pc EXCEPT ![t] = "done"]
    /\ UNCHANGED <<race_word, t_val, translit_cache, calls>>
    /\ UNCHANGED <<extractVars, alignVars, overlap_threshold>>
    /\ UNCHANGED <<dictVars, wordVars, pipeVars>>
    /\ UNCHANGED <<batchVars, searchVars, sentVars, indexVars>>

\* ------------------------------------------------ process_thai_words_batch
\* a position of the result list: None, or a processed word
EmptySlot == [none |-> TRUE, value |-> NoWord]
Slot(processed_word) == [none |-> FALSE, value |-> processed_word]

\* a batch test that takes every word for uncached
BatchCachedNever(cache, word) == FALSE

\* "word in _word_cache" of line 62
BatchCached(cache, word) == word \in DOMAIN cache

\* lines 60-67, from position i on (positions count from 1 here); st is
\* [results, uncached_words, word_to_index]
RECURSIVE BatchScan(_, _, _, _)
BatchScan(words, i, cache, st) ==
    IF i > Len(words) THEN st
    ELSE LET word == words[i]
         IN  IF BatchCached(cache, word)
             THEN BatchScan(words, i + 1, cache,
                      [st EXCEPT !.results = Append(@, Slot(cache[word]))])
             ELSE BatchScan(words, i + 1, cache,
                      [results |-> Append(st.results, EmptySlot),
                       uncached_words |-> Append(st.uncached_words, word),
                       word_to_index |-> (word :> i) @@ st.word_to_index])

\* lines 72-73: the transliterations of the uncached words, in their order
RECURSIVE BatchTransliterate(_, _, _)
BatchTransliterate(uncached_words, k, ws) ==
    IF k > Len(uncached_words) THEN [ws |-> ws, raised |-> FALSE]
    ELSE LET word == uncached_words[k]
         IN  IF word \in ws.tcache
             THEN BatchTransliterate(uncached_words, k + 1, ws)
             ELSE LET counted ==
                        [ws EXCEPT !.calls.translit = Bump(@, word)]
                  IN  IF Raises(ws, "translit", word)
                      THEN [ws |-> counted, raised |-> TRUE]
                      ELSE BatchTransliterate(uncached_words, k + 1,
                               [counted EXCEPT !.tcache = @ \cup {word}])

\* lines 76-90; which names the service ("freq" or "full") the batch was
\* given, st is [ws, results, raised]
RECURSIVE BatchFill(_, _, _, _, _, _)
BatchFill(uncached_words, k, which, service, word_to_index, st) ==
    IF k > Len(uncached_words) THEN st
    ELSE LET word == uncached_words[k]
             counted == [st.ws EXCEPT !.calls[which] = Bump(@, word)]
             processed_word ==
                 TokenizedThaiWord(word, transliterate(word),
                     TranslationsOf(search_word(service, word)))
         IN  IF Raises(st.ws, which, word)
             THEN [ws |-> counted, results |-> st.results, raised |-> TRUE]
             ELSE BatchFill(uncached_words, k + 1, which, service,
                      word_to_index,
                      [ws |-> [counted EXCEPT !.cache =
                                   CacheStore(@, word, processed_word)],
                       results |->
                           [st.results EXCEPT ![word_to_index[word]] =
                                Slot(processed_word)],
                       raised |-> FALSE])

process_thai_words_batch(ws, which, service, words) ==
    LET scan == BatchScan(words, 1, ws.cache,
                    [results |-> <<>>, uncached_words |-> <<>>,
                     word_to_index |-> [w \in {} |-> 0]])
        tr == BatchTransliterate(scan.uncached_words, 1, ws)
    IN  IF scan.uncached_words = <<>>
        THEN [ws |-> ws, results |-> scan.results, raised |-> FALSE]
        ELSE IF tr.raised
        THEN [ws |-> tr.ws, results |-> scan.results, raised |-> TRUE]
        ELSE BatchFill(scan.uncached_words, 1, which, service,
                 scan.word_to_index,
                 [ws |-> tr.ws, results |-> scan.results, raised |-> FALSE])

NoBatchCall ==
    [called |-> FALSE, which |-> "", words |-> <<>>, results |-> <<>>,
     raised |-> FALSE]

IdleBatch ==
    /\ batch_call = NoBatchCall
    /\ ops = 0

ServiceOf(which) == IF which = "freq" THEN dict_freq ELSE dict_full

\* a call process_thai_words_batch(dict_service, words)
ProcessThaiWordsBatch(which, words) ==
    /\ ops < MaxOps
    /\ \E r \in {process_thai_words_batch(WordState, which,
                                          ServiceOf(which), words)} :
         /\ word_cache' = r.ws.cache
         /\ translit_cache' = r.ws.tcache
         /\ calls' = r.ws.calls
         /\ batch_call' =
              [called |-> TRUE, which |-> which, words |-> words,
               results |-> r.results, raised |-> r.raised]
    /\ ops' = ops + 1
    /\ UNCHANGED <<extractVars, alignVars, overlap_threshold>>
    /\ UNCHANGED <<dictVars, wordVars, pipeVars>>
    /\ UNCHANGED <<raceVars, searchVars, sentVars, indexVars>>

\* a call clear_word_cache(): the annotation cache is emptied, the cache of
\* _cached_transliterate is not
ClearWordCache ==
    /\ ops < MaxOps
    /\ word_cache' = EmptyCache
    /\ ops' = ops + 1
    /\ UNCHANGED <<translit_cache, calls, batch_call>>
    /\ UNCHANGED <<extractVars, alignVars, overlap_threshold>>
    /\ UNCHANGED <<dictVars, wordVars, pipeVars>>
    /\ UNCHANGED <<raceVars, searchVars, sentVars, indexVars>>

\* ------------------------------------------- the search of dict_helpers.py
\* U+00A0, the zero-width characters of _ZW_RE, the comma, and one pair NFC
\* composes: e followed by the combining acute accent is e-acute
Nbsp == 160
ZeroWidth == {8203, 8204, 8205, 8288, 65279}
Comma == 44
LatinE == 101
CombiningAcute == 769
EAcute == 233

\* str.replace of one character
Replace(s, old, new) == [i \in 1..Len(s) |-> IF s[i] = old THEN new ELSE s[i]]

\* _WS_RE.sub(" ", text): each run of whitespace becomes one space
RECURSIVE CollapseSpaces(_)
CollapseSpaces(s) ==
    IF s = <<>> THEN <<>>
    ELSE IF IsSpace(Head(s))
    THEN IF Len(s) > 1 /\ IsSpace(s[2]) THEN CollapseSpaces(Tail(s))
         ELSE <<32>> \o CollapseSpaces(Tail(s))
    ELSE <<Head(s)>> \o CollapseSpaces(Tail(s))

\* unicodedata.normalize("NFC", text)
RECURSIVE NFC(_)
NFC(s) ==
    IF s = <<>> THEN <<>>
    ELSE IF Len(s) > 1 /\ s[1] = LatinE /\ s[2] = CombiningAcute
    THEN <<EAcute>> \o NFC(Tail(Tail(s)))
    ELSE <<Head(s)>> \o NFC(Tail(s))

\* str.lower on the Latin letters
Lower(s) ==
    [i \in 1..Len(s) |-> IF s[i] >= 65 /\ s[i] <= 90 THEN s[i] + 32 ELSE s[i]]

\* str.split(","): the pieces between the commas, cur being the piece read
RECURSIVE Split(_, _)
Split(s, cur) ==
    IF s = <<>> THEN <<cur>>
    ELSE IF Head(s) = Comma THEN <<cur>> \o Split(Tail(s), <<>>)
    ELSE Split(Tail(s), Append(cur, Head(s)))

\* normalize_text on an Optional[str]
normalize_text(text) ==
    IF text.t # "str" THEN NoneS
    ELSE LET stripped == Strip(Replace(text.v, Nbsp, 32))
             no_zw == SelectSeq(stripped, LAMBDA c : c \notin ZeroWidth)
             r == NFC(CollapseSpaces(no_zw))
         IN  IF r # <<>> THEN Str(r) ELSE NoneS

\* normalize_search_term on a str
normalize_search_term(term) ==
    IF term = <<>> THEN <<>>
    ELSE LET normalized == normalize_text(Str(term))
         IN  IF normalized.t = "str" THEN Lower(normalized.v) ELSE <<>>

\* getattr(entry, field_name, None)
GetAttr(entry, field_name) ==
    IF field_name \in DOMAIN entry THEN entry[field_name] ELSE NoneS

\* the test of one field in _entry_matches_exact
FieldMatches(entry, normalized_search, field_name) ==
    LET field_value == GetAttr(entry, field_name)
    IN  /\ field_value.t = "str" /\ field_value.v # <<>>
        /\ IF field_name \in {"t_syn", "e_related"}
           THEN LET terms == Split(field_value.v, <<>>)
                IN  \E k \in 1..Len(terms) :
                        normalize_search_term(Strip(terms[k]))
                            = normalized_search
           ELSE normalize_search_term(field_value.v) = normalized_search

_entry_matches_exact(entry, normalized_search, search_fields) ==
    \E field_name \in search_fields :
        FieldMatches(entry, normalized_search, field_name)

\* list.sort(key=lambda x: x.id): a stable insertion by id
RECURSIVE InsertById(_, _)
InsertById(sorted, entry) ==
    IF sorted = <<>> THEN <<entry>>
    ELSE IF sorted[Len(sorted)].id <= entry.id THEN Append(sorted, entry)
    ELSE Append(InsertById(SubSeq(sorted, 1, Len(sorted) - 1), entry),
                sorted[Len(sorted)])

RECURSIVE SortById(_, _)
SortById(entries, sorted) ==
    IF entries = <<>> THEN sorted
    ELSE SortById(Tail(entries), InsertById(sorted, Head(entries)))

\* search_dictionary: the entries of the SearchResult
search_dictionary(entries, search_term, search_fields) ==
    IF search_term = <<>> \/ entries = <<>> THEN <<>>
    ELSE LET normalized_search == normalize_search_term(search_term)
         IN  SortById(SelectSeq(entries,
                 LAMBDA entry : _entry_matches_exact(entry,
                                    normalized_search, search_fields)),
                      <<>>)

\* _HEADWORD_FIELDS
HeadwordFields == {"t_entry", "t_search"}

search_headwords_only(entries, headword) ==
    search_dictionary(entries, headword, HeadwordFields)

\* _SYNONYM_FIELDS
SynonymFields == {"t_syn", "e_related"}

\* search_with_priority: the entries of the SearchResult, the headword
\* matches and then the synonym matches, sorted by id
search_with_priority(entries, search_term) ==
    IF search_term = <<>> \/ entries = <<>> THEN <<>>
    ELSE LET normalized_search == normalize_search_term(search_term)
             headword_matches ==
                 SelectSeq(entries,
                     LAMBDA entry : _entry_matches_exact(entry,
                                        normalized_search, HeadwordFields))
             synonym_matches ==
                 SelectSeq(entries,
                     LAMBDA entry :
                         /\ ~_entry_matches_exact(entry, normalized_search,
                                                  HeadwordFields)
                         /\ _entry_matches_exact(entry, normalized_search,
                                                 SynonymFields))
         IN  SortById(headword_matches \o synonym_matches, <<>>)

\* entries as DictionaryEntry.from_row builds them (_nz turns an empty field
\* into None): the Thai word, its synonyms, and the translation fields
Entry(id, t_word, t_syn, e_dict, e_dict_v, rom_english) ==
    [DictionaryEntry(id, e_dict, e_dict_v, rom_english)
         EXCEPT !.t_word = t_word, !.t_syn = t_syn]

SearchEntryMenu ==
    { Entry(1, Str(<<KoKai>>), NoneS, EnA, NoneS, NoneS),
      Entry(2, Str(<<KoKai>>), NoneS, NoneS, EnC, EnA),
      Entry(3, Str(<<KoKai + 1>>), NoneS, NoneS, NoneS, EnB),
      Entry(4, Str(<<KoKai + 1>>), Str(<<KoKai, Comma, 32, KoKai + 2>>),
            EnA, EnB, NoneS),
      Entry(5, NoneS, NoneS, NoneS, NoneS, NoneS),
      Entry(6, Str(<<65>>), NoneS, NoneS, NoneS, EnC),
      Entry(7, Str(<<KoKai>>), Str(<<KoKai>>), EnB, NoneS, NoneS) }

\* queries: the empty string, a Thai word, the same word wrapped in a
\* no-break space and a zero-width space, a Latin letter, the Thai word
\* after a zero-width space and a space
TermMenu ==
    {<<>>, <<KoKai>>, <<Nbsp, KoKai, 8203>>, <<97>>, <<8203, 32, KoKai>>}

NoSearch ==
    [op |-> "", entries |-> <<>>, translations |-> <<>>, text |-> NoneS]

IdleSearch ==
    /\ sd_entries = <<>>
    /\ sd_term = <<>>
    /\ sd_out = NoSearch

NoSentence == [called |-> FALSE, words |-> <<>>, raised |-> FALSE]

IdleSent ==
    /\ sent_text = <<>>
    /\ sent_out = NoSentence

\* a call process_thai_sentence(thai_text, dict_freq, dict_full)
ProcessThaiSentence ==
    /\ ~sent_out.called
    /\ \E r \in {process_thai_sentence(sent_text, WordState, dict_freq,
                                       dict_full)} :
         /\ sent_out' = [called |-> TRUE, words |-> r.words,
                         raised |-> r.raised]
         /\ word_cache' = r.ws.cache
         /\ translit_cache' = r.ws.tcache
         /\ calls' = r.ws.calls
    /\ UNCHANGED <<sent_text, overlap_threshold>>
    /\ UNCHANGED <<extractVars, alignVars, dictVars, wordVars, pipeVars>>
    /\ UNCHANGED <<raceVars, batchVars, searchVars, indexVars>>

\* the two concurrent calls of save_transcript_to_file
Savers == {1, 2}

IdleIndex ==
    /\ index_file = {}
    /\ sv_pc = [s \in Savers |-> "idle"]
    /\ sv_index = [s \in Savers |-> {}]

\* key = f"{video_id}_{language}": the two calls save the Thai and the
\* English transcript of one video
KeyOf(s) == IF s = 1 THEN "v1_th" ELSE "v1_en"

\* keys index.json may hold before the calls
OldKeys == {"v0_th", "v0_en", "v1_th"}

otherVars ==
    <<extractVars, alignVars, overlap_threshold, dictVars, cacheVars,
      wordVars, pipeVars, raceVars, batchVars, searchVars, sentVars>>

\* save_transcript_to_file up to the call of update_index: the transcript
\* file is written
SaveTranscriptFile(s) ==
    /\ sv_pc[s] = "call"
    /\ sv_pc' = [sv_pc EXCEPT ![s] = "written"]
    /\ UNCHANGED <<index_file, sv_index>>
    /\ UNCHANGED otherVars

\* index = load_index(): the content of index.json at this moment
LoadIndex(s) ==
    /\ sv_pc[s] = "written"
    /\ sv_index' = [sv_index EXCEPT ![s] = index_file]
    /\ sv_pc' = [sv_pc EXCEPT ![s] = "loaded"]
    /\ UNCHANGED index_file
    /\ UNCHANGED otherVars

\* index[key] = {...} on the loaded copy
ModifyIndex(s) ==
    /\ sv_pc[s] = "loaded"
    /\ sv_index' = [sv_index EXCEPT ![s] = @ \cup {KeyOf(s)}]
    /\ sv_pc' = [sv_pc EXCEPT ![s] = "modified"]
    /\ UNCHANGED index_file
    /\ UNCHANGED otherVars

\* save_index(index): index.json is rewritten with the copy, and
\* save_transcript_to_file returns
SaveIndex(s) ==
    /\ sv_pc[s] = "modified"
    /\ index_file' = sv_index[s]
    /\ sv_pc' = [sv_pc EXCEPT ![s] = "done"]
    /\ UNCHANGED sv_index
    /\ UNCHANGED otherVars

\* a call search_headwords_only(entries, term)
SearchHeadwordsOnly ==
    /\ sd_out.op # "search_headwords_only"
    /\ sd_out' = [op |-> "search_headwords_only",
                  entries |-> search_headwords_only(sd_entries, sd_term),
                  translations |-> <<>>, text |-> NoneS]
    /\ UNCHANGED <<sd_entries, sd_term>>
    /\ UNCHANGED <<extractVars, alignVars, overlap_threshold>>
    /\ UNCHANGED <<dictVars, cacheVars, wordVars, pipeVars>>
    /\ UNCHANGED <<raceVars, batchVars, sentVars, indexVars>>

\* a call SearchResult(word, entries).get_english_translations()
GetEnglishTranslations ==
    /\ sd_out.op # "get_english_translations"
    /\ sd_out' = [op |-> "get_english_translations",
                  entries |-> sd_entries,
                  translations |-> get_english_translations(sd_entries),
                  text |-> NoneS]
    /\ UNCHANGED <<sd_entries, sd_term>>
    /\ UNCHANGED <<extractVars, alignVars, overlap_threshold>>
    /\ UNCHANGED <<dictVars, cacheVars, wordVars, pipeVars>>
    /\ UNCHANGED <<raceVars, batchVars, sentVars, indexVars>>

\* a call search_with_priority(entries, term)
SearchWithPriority ==
    /\ sd_out.op # "search_with_priority"
    /\ sd_out' = [op |-> "search_with_priority",
                  entries |-> search_with_priority(sd_entries, sd_term),
                  translations |-> <<>>, text |-> NoneS]
    /\ UNCHANGED <<sd_entries, sd_term>>
    /\ UNCHANGED <<extractVars, alignVars, overlap_threshold>>
    /\ UNCHANGED <<dictVars, cacheVars, wordVars, pipeVars>>
    /\ UNCHANGED <<raceVars, batchVars, sentVars, indexVars>>

\* a call normalize_text(term)
NormalizeText ==
    /\ sd_out.op # "normalize_text"
    /\ sd_out' = [op |-> "normalize_text",
                  entries |-> <<>>, translations |-> <<>>,
                  text |-> normalize_text(Str(sd_term))]
    /\ UNCHANGED <<sd_entries, sd_term>>
    /\ UNCHANGED <<extractVars, alignVars, overlap_threshold>>
    /\ UNCHANGED <<dictVars, cacheVars, wordVars, pipeVars>>
    /\ UNCHANGED <<raceVars, batchVars, sentVars, indexVars>>

\* --------------------------------------------------------- specifications
\* calls of extract_subtitle_entries on every input of ExtractInputs
InitExtract ==
    /\ ex_in \in ExtractInputs
    /\ overlap_threshold = DefaultThreshold
    /\ ex_out = NotCalled
    /\ IdleAlign
    /\ IdleDict /\ FreshCache /\ IdleWord /\ IdlePipe
    /\ IdleRace /\ IdleBatch /\ IdleSearch
    /\ IdleSent /\ IdleIndex

NextExtract == ExtractCall

SpecExtract == InitExtract /\ [][NextExtract]_vars

\* calls of align_subtitles on every pair of lists over AlignMenu
InitAlign ==
    /\ al_thai \in SeqsUpTo(AlignMenu, MaxThai)
    /\ al_eng \in SeqsUpTo(AlignMenu, MaxEng)
    /\ overlap_threshold \in Thresholds
    /\ thai_idx = 0 /\ eng_idx = 0 /\ aligned = <<>>
    /\ al_pc = "call" /\ scan_steps = 0
    /\ IdleExtract
    /\ IdleDict /\ FreshCache /\ IdleWord /\ IdlePipe
    /\ IdleRace /\ IdleBatch /\ IdleSearch
    /\ IdleSent /\ IdleIndex

NextAlign == AlignEnter \/ AlignStep \/ AlignReturn

SpecAlign == InitAlign /\ [][NextAlign]_vars

\* calls of process_thai_word on a fresh cache, for every pair of
\* dictionaries over FreqMenu and FullMenu
InitWord ==
    /\ dict_freq \in [Words -> FreqMenu]
    /\ dict_full \in [Words -> FullMenu]
    /\ faults = {}
    /\ FreshCache /\ IdleWord
    /\ overlap_threshold = DefaultThreshold
    /\ IdleExtract /\ IdleAlign /\ IdlePipe
    /\ IdleRace /\ IdleBatch /\ IdleSearch
    /\ IdleSent /\ IdleIndex

NextWord == \E word \in Words, has_full \in BOOLEAN : ProcessThaiWord(word, has_full)

SpecWord == InitWord /\ [][NextWord]_vars

\* the dictionaries of the pipeline: the first word is in the primary
\* dictionary, the second only in the secondary one
PipeFreq == [w \in Words |-> IF w = <<KoKai>> THEN EntriesA ELSE EntriesNone]
PipeFull == [w \in Words |-> EntriesCB]

\* calls of process_video_for_learning on every stored pair of transcripts
Init ==
    /\ store \in [Langs -> StoreMenu]
    /\ result = NoResult
    /\ prev_result = NoResult
    /\ runs = 0
    /\ overlap_threshold = DefaultThreshold
    /\ dict_freq = PipeFreq
    /\ dict_full = PipeFull
    /\ faults = {}
    /\ FreshCache /\ IdleWord
    /\ IdleExtract /\ IdleAlign
    /\ IdleRace /\ IdleBatch /\ IdleSearch
    /\ IdleSent /\ IdleIndex

Next == ProcessVideo

Spec == Init /\ [][Next]_vars

\* two concurrent calls of process_thai_word for one uncached word, for
\* every pair of dictionaries over FreqMenu and FullMenu
InitRace ==
    /\ dict_freq \in [Words -> FreqMenu]
    /\ dict_full \in [Words -> FullMenu]
    /\ faults = {}
    /\ FreshCache /\ IdleWord
    /\ race_word \in Words
    /\ t_pc = [t \in Threads |-> "check"]
    /\ t_val = [t \in Threads |-> NoWord]
    /\ t_ret = [t \in Threads |-> NoWord]
    /\ overlap_threshold = DefaultThreshold
    /\ IdleExtract /\ IdleAlign /\ IdlePipe
    /\ IdleBatch /\ IdleSearch
    /\ IdleSent /\ IdleIndex

NextRace == \E t \in Threads : RaceCheck(t) \/ RaceCompute(t) \/ RaceStore(t)

SpecRace == InitRace /\ [][NextRace]_vars

\* every sequence of the operations word_util.py offers on the cache, with
\* the dictionaries of the pipeline
Batches == SeqsUpTo(Words, MaxBatch)

\* calls of process_thai_word so far
RECURSIVE SumOver(_, _)
SumOver(f, S) ==
    IF S = {} THEN 0
    ELSE LET x == CHOOSE y \in S : TRUE IN f[x] + SumOver(f, S \ {x})

WordCalls == SumOver(ncalls, Words)

InitCache ==
    /\ dict_freq = PipeFreq
    /\ dict_full = PipeFull
    /\ faults = {}
    /\ FreshCache /\ IdleWord
    /\ overlap_threshold = DefaultThreshold
    /\ IdleExtract /\ IdleAlign /\ IdlePipe
    /\ IdleRace /\ IdleBatch /\ IdleSearch
    /\ IdleSent /\ IdleIndex

NextCache ==
    \/ \E word \in Words :
           /\ WordCalls < MaxOps
           /\ ProcessThaiWord(word, TRUE)
    \/ \E which \in {"freq", "full"}, words \in Batches :
           ProcessThaiWordsBatch(which, words)
    \/ ClearWordCache

SpecCache == InitCache /\ [][NextCache]_vars

\* dictionary operations on every entry list over SearchEntryMenu and every
\* query of TermMenu
InitDict ==
    /\ sd_entries \in SeqsUpTo(SearchEntryMenu, MaxEntries)
    /\ sd_term \in TermMenu
    /\ sd_out = NoSearch
    /\ overlap_threshold = DefaultThreshold
    /\ IdleExtract /\ IdleAlign /\ IdlePipe
    /\ IdleDict /\ FreshCache /\ IdleWord
    /\ IdleRace /\ IdleBatch
    /\ IdleSent /\ IdleIndex

\* two calls of save_transcript_to_file for different keys, running
\* concurrently on every content of index.json
InitIndex ==
    /\ index_file \in SUBSET OldKeys
    /\ sv_pc = [s \in Savers |-> "call"]
    /\ sv_index = [s \in Savers |-> {}]
    /\ overlap_threshold = DefaultThreshold
    /\ IdleExtract /\ IdleAlign /\ IdlePipe
    /\ IdleDict /\ FreshCache /\ IdleWord
    /\ IdleRace /\ IdleBatch /\ IdleSearch
    /\ IdleSent

NextIndex ==
    \E s \in Savers :
        \/ SaveTranscriptFile(s)
        \/ LoadIndex(s)
        \/ ModifyIndex(s)
        \/ SaveIndex(s)

SpecIndex == InitIndex /\ [][NextIndex]_vars

\* the characters of the sentences: two Thai letters, a space, a Latin
\* letter and a zero-width space
SentChars == {KoKai, KoKai + 1, 32, 97, 8203}

\* the sentences whose Thai tokens are words of the dictionaries
Sentences ==
    {t \in SeqsUpTo(SentChars, MaxText) :
        \A k \in 1..Len(word_tokenize(normalize(t))) :
            LET tok == word_tokenize(normalize(t))[k]
            IN  is_thai_word(tok) => tok \in Words}

\* calls of process_thai_sentence on every sentence, with a fresh cache
InitSentence ==
    /\ sent_text \in Sentences
    /\ sent_out = NoSentence
    /\ dict_freq = PipeFreq
    /\ dict_full = PipeFull
    /\ faults = {}
    /\ FreshCache /\ IdleWord
    /\ overlap_threshold = DefaultThreshold
    /\ IdleExtract /\ IdleAlign /\ IdlePipe
    /\ IdleRace /\ IdleBatch /\ IdleSearch
    /\ IdleIndex

NextSentence == ProcessThaiSentence

SpecSentence == InitSentence /\ [][NextSentence]_vars

NextDict ==
    \/ SearchHeadwordsOnly
    \/ GetEnglishTranslations
    \/ SearchWithPriority
    \/ NormalizeText

SpecDict == InitDict /\ [][NextDict]_vars

\* calls of process_video_for_learning with a collaborator that raises for
\* one word, on transcripts of spoken cues
FaultCueMenu ==
    { RawCue(Str(TwoWords), Num(0), Num(Dec(20))),
      RawCue(Str(WordAndLatin), Num(Dec(100)), Num(Dec(20))),
      RawCue(Str(<<KoKai>>), Num(Dec(1)), Num(Dec(2))) }

FaultMenu ==
    {{}} \cup {{<<c, w>>} : c \in {"translit", "freq", "full"}, w \in Words}

InitFault ==
    /\ store \in [Langs -> {Stored(c) : c \in SeqsUpTo(FaultCueMenu, MaxPipeCues)}]
    /\ faults \in FaultMenu
    /\ result = NoResult
    /\ prev_result = NoResult
    /\ runs = 0
    /\ overlap_threshold = DefaultThreshold
    /\ dict_freq = PipeFreq
    /\ dict_full = PipeFull
    /\ FreshCache /\ IdleWord
    /\ IdleExtract /\ IdleAlign
    /\ IdleRace /\ IdleBatch /\ IdleSearch
    /\ IdleSent /\ IdleIndex

NextFault == ProcessVideo

SpecFault == InitFault /\ [][NextFault]_vars


\* ----------------------------------------------------------------- claims

\* C1: every pair emitted by align_subtitles has an overlap_score that is
\* at least overlap_threshold and at most 1.0.
C1_ScoreInRange ==
    \A i \in 1..Len(aligned) :
        /\ aligned[i].overlap_score >= overlap_threshold
        /\ aligned[i].overlap_score <= One

\* alignment scenario A: sources (0,5),(5,5), target (0,10), threshold 0.3
ScenarioA ==
    /\ al_thai = <<Timed(0, 50), Timed(50, 50)>>
    /\ al_eng = <<Timed(0, 100)>>
    /\ overlap_threshold = Dec(3)

\* the pair emitted for the source at position i (0-based), if any
PairsOf(i) == {k \in 1..Len(aligned) : aligned[k].ti = i}

\* C2: after source i is matched to target k the cursor stays on k, so a
\* next source that overlaps target k by at least the threshold, and no
\* later target by more, is paired with the same target k; scenario A
\* yields exactly two pairs on the one target, each with score 1.0.
C2_ManyToOne ==
    al_pc = "returned" =>
      /\ \A p \in 1..Len(aligned) :
           LET i == aligned[p].ti
               k == aligned[p].ei
           IN  (/\ i + 1 < Len(al_thai)
                /\ calculate_overlap(al_thai[i + 2], al_eng[k + 1]) > 0
                /\ calculate_overlap(al_thai[i + 2], al_eng[k + 1])
                      >= overlap_threshold
                /\ \A j \in (k + 2)..Len(al_eng) :
                      calculate_overlap(al_thai[i + 2], al_eng[j])
                        <= calculate_overlap(al_thai[i + 2], al_eng[k + 1]))
               => \E q \in PairsOf(i + 1) : aligned[q].ei = k
      /\ ScenarioA =>
           /\ Len(aligned) = 2
           /\ \A p \in 1..2 :
                /\ aligned[p].ei = 0
                /\ aligned[p].english = al_eng[1]
                /\ aligned[p].overlap_score = One
           /\ aligned[1].ti = 0 /\ aligned[2].ti = 1

\* scenario A has run to its return with a second pair on the same target
C2_Witness ==
    /\ al_pc = "returned"
    /\ ScenarioA
    /\ Len(aligned) = 2
    /\ aligned[1].ei = aligned[2].ei

\* the cue's text, "" when the key is absent
TextOf(cue) == Get(cue.text, Str(<<>>)).v

\* the text is only whitespace, or its first other character is '['
DropsCue(cue) ==
    LET s == TextOf(cue)
    IN  \/ \A i \in 1..Len(s) : IsSpace(s[i])
        \/ \E i \in 1..Len(s) :
              /\ s[i] = LBracket
              /\ \A j \in 1..(i - 1) : IsSpace(s[j])

\* the positions of the cues that are not dropped, in order
KeptIdx(cues) ==
    SelectSeq([i \in 1..Len(cues) |-> i], LAMBDA i : ~DropsCue(cues[i]))

\* every cue has a string for its text, or no text key
TextsAreStrings(cues) ==
    \A i \in 1..Len(cues) : cues[i].text.t \in {"str", "missing"}

\* C4: extract_subtitle_entries drops exactly the cues whose trimmed text
\* is empty or begins with '['; the others are kept in their order with
\* the start and duration of the cue, and a text without surrounding
\* whitespace is kept as it is.
C4_ExtractFilter ==
    (ex_out.called /\ ex_in.kind = "loaded" /\ TextsAreStrings(ex_in.cues))
    => LET cues == ex_in.cues
           kept == KeptIdx(cues)
       IN  /\ ~ex_out.raised
           /\ Len(ex_out.entries) = Len(kept)
           /\ \A k \in 1..Len(kept) :
                LET cue == cues[kept[k]]
                    entry == ex_out.entries[k]
                IN  /\ entry.start = Get(cue.start, Num(0))
                    /\ entry.duration = Get(cue.duration, Num(0))
                    /\ (~IsSpace(TextOf(cue)[1])
                          /\ ~IsSpace(TextOf(cue)[Len(TextOf(cue))]))
                       => entry.text = TextOf(cue)

\* a call that dropped a bracketed cue and a blank cue and kept a word
C4_Witness ==
    /\ ex_out.called
    /\ ex_in.kind = "loaded"
    /\ TextsAreStrings(ex_in.cues)
    /\ Len(ex_in.cues) = 2
    /\ DropsCue(ex_in.cues[1])
    /\ TextOf(ex_in.cues[1]) # <<>>
    /\ ~DropsCue(ex_in.cues[2])
    /\ Len(ex_out.entries) = 1

\* C5: extract_subtitle_entries never raises, whatever the raw cues hold.
C5_ExtractNeverRaises == ex_out.called => ~ex_out.raised

\* C6: every SubtitleEntry has a duration >= 0.
C6_DurationNonNegative ==
    \A k \in 1..Len(ex_out.entries) :
        IsNum(ex_out.entries[k].duration)
        => ex_out.entries[k].duration.v >= 0

\* the cleaned entries of the stored transcript of a language
Cleaned(lang) ==
    extract_subtitle_entries(find_transcript_with_content(store[lang]))

\* every entry has a number for its start and for its duration
NumericEntries(es) ==
    \A i \in 1..Len(es) : IsNum(es[i].start) /\ IsNum(es[i].duration)

\* the two entries share a time span of positive length
Intersect(s, t) ==
    Max2(s.start.v, t.start.v) < Min2(End(s), End(t))

\* both transcripts are stored and clean to non-empty lists of timed
\* entries of which no Thai one meets an English one in time
NoIntersection ==
    /\ \A l \in Langs : store[l].kind = "stored"
    /\ \A l \in Langs :
         /\ ~Cleaned(l).raised
         /\ Cleaned(l).entries # <<>>
         /\ NumericEntries(Cleaned(l).entries)
    /\ \A i \in 1..Len(Cleaned("Thai").entries) :
         \A j \in 1..Len(Cleaned("English").entries) :
            ~Intersect(Cleaned("Thai").entries[i],
                       Cleaned("English").entries[j])

\* C3: when no source entry meets a target entry in time, align_subtitles
\* returns no pair and process_video_for_learning returns the failure
\* 'Could not align any subtitles' with no learning entries; it does not
\* raise.
C3_NoAlignment ==
    (result.called /\ NoIntersection) =>
        /\ align_subtitles(Cleaned("Thai").entries,
                           Cleaned("English").entries,
                           overlap_threshold) = Returned(<<>>)
        /\ ~result.raised
        /\ ~result.success
        /\ result.error.msg = "Could not align any subtitles"
        /\ result.learning_entries = <<>>

\* alignment scenario B has run: source (0,2), target (10,2)
C3_Witness ==
    /\ result.called
    /\ NoIntersection
    /\ Len(Cleaned("Thai").entries) = 1
    /\ Cleaned("Thai").entries[1].start = Num(0)
    /\ Cleaned("Thai").entries[1].duration = Num(Dec(20))
    /\ Len(Cleaned("English").entries) = 1
    /\ Cleaned("English").entries[1].start = Num(Dec(100))
    /\ Cleaned("English").entries[1].duration = Num(Dec(20))
    /\ overlap_threshold = Dec(3)
    /\ ~result.success

\* C7: over a sequence of process_thai_word calls, the transliterator and
\* the primary dictionary are called exactly once for each word that was
\* processed, the secondary dictionary at most once, and every call for a
\* word returns what the first call for it returned.
C7_CacheIdempotence ==
    /\ \A w \in Words :
         ncalls[w] >= 1 =>
            /\ calls.translit[w] = 1
            /\ calls.freq[w] = 1
            /\ calls.full[w] <= 1
    /\ word_call.called =>
         /\ word_call.word \in DOMAIN first_result
         /\ word_call.result = first_result[word_call.word]

\* a word was processed again and the call was served from the cache
C7_Witness ==
    /\ word_call.called
    /\ word_call.hit
    /\ ncalls[word_call.word] >= 2
    /\ calls.freq[word_call.word] = 1

\* the two lists of translations for the word of the last call
PrimaryList == TranslationsOf(search_word(dict_freq, word_call.word))
SecondaryList == TranslationsOf(search_word(dict_full, word_call.word))

\* C8: on a cache miss with a secondary dictionary, the secondary one is
\* queried once if the primary list of translations is empty and not at
\* all otherwise; the translations are the secondary list in the first
\* case and the primary list in the second, never both.
C8_Fallback ==
    (word_call.called /\ ~word_call.hit /\ word_call.has_full) =>
        /\ word_call.freq_lookups = 1
        /\ word_call.full_lookups \in {0, 1}
        /\ word_call.full_lookups = 1 <=> PrimaryList = <<>>
        /\ word_call.result.english_translations =
              IF PrimaryList = <<>> THEN SecondaryList ELSE PrimaryList

\* a miss whose primary list was empty and that took the secondary list,
\* after a miss whose primary list was not empty
C8_Witness ==
    /\ word_call.called /\ ~word_call.hit /\ word_call.has_full
    /\ PrimaryList = <<>>
    /\ SecondaryList # <<>>
    /\ word_call.full_lookups = 1
    /\ word_call.result.english_translations = SecondaryList
    /\ \E w \in Words :
         /\ calls.freq[w] = 1
         /\ calls.full[w] = 0
         /\ TranslationsOf(search_word(dict_freq, w)) # <<>>
         /\ TranslationsOf(search_word(dict_full, w)) # <<>>

Abs(x) == IF x >= 0 THEN x ELSE 0 - x

\* r is the float nearest to the quotient a / t
NearestFloat(r, a, t) ==
    /\ t > 0
    /\ 2 * Abs(r * t - a * One) <= t * Pow2(ShiftFor(r))

\* C9: in a success result, alignment_rate is aligned_count divided by
\* total_thai_subs, the number of cleaned Thai entries; the expression
\* gives 0 when there is no Thai entry.
C9_AlignmentRate ==
    /\ (result.called /\ result.success) =>
         /\ result.total_thai_subs = Len(Cleaned("Thai").entries)
         /\ NearestFloat(result.alignment_rate, result.aligned_count,
                         result.total_thai_subs)
    /\ AlignmentRate(<<>>, <<>>) = 0

\* a success in which one of two Thai entries was aligned: rate 0.5
C9_Witness ==
    /\ result.called /\ result.success
    /\ result.total_thai_subs = 2
    /\ result.aligned_count = 1
    /\ 2 * result.alignment_rate = One

\* find_transcript_with_content finds no transcript for the language
Absent(lang) == store[lang].kind \in {"unindexed", "gone"}

\* C10: when a transcript is not found, the result is a failure whose
\* error names exactly the languages that were not found.
C10_MissingLanguages ==
    (result.called /\ \E l \in Langs : Absent(l)) =>
        /\ ~result.raised
        /\ ~result.success
        /\ result.error.msg = "Missing subtitles for"
        /\ {result.error.langs[i] : i \in 1..Len(result.error.langs)}
              = {l \in Langs : Absent(l)}
        /\ Len(result.error.langs) = Cardinality({l \in Langs : Absent(l)})
        /\ result.learning_entries = <<>>

\* only the English transcript was not found, and only English is named
C10_Witness ==
    /\ result.called
    /\ store["Thai"].kind = "stored"
    /\ Absent("English")
    /\ result.error.langs = <<"English">>

\* the outcomes of process_video_for_learning
MissingOutcome ==
    /\ ~result.success
    /\ result.error.msg = "Missing subtitles for"
    /\ result.learning_entries = <<>>

NoEntriesOutcome ==
    /\ ~result.success
    /\ result.error.msg = "No valid subtitle entries found"
    /\ result.learning_entries = <<>>

NoPairsOutcome ==
    /\ ~result.success
    /\ result.error.msg = "Could not align any subtitles"
    /\ result.learning_entries = <<>>

SuccessOutcome ==
    /\ result.success
    /\ result.error = NoError
    /\ result.learning_entries # <<>>

PairsOfStore ==
    align_subtitles(Cleaned("Thai").entries, Cleaned("English").entries,
                    overlap_threshold)

\* C11: a call of process_video_for_learning ends in exactly one of four
\* outcomes, decided in this order: the missing-language failure, the
\* failure 'No valid subtitle entries found' when a cleaned list is empty,
\* the failure 'Could not align any subtitles' when there is no pair, or
\* success; a failure has success false and no learning entries, a success
\* has learning entries.
C11_FourOutcomes ==
    result.called =>
        /\ ~result.raised
        /\ IF \E l \in Langs : Absent(l) THEN MissingOutcome
           ELSE IF \E l \in Langs : Cleaned(l).entries = <<>>
           THEN NoEntriesOutcome
           ELSE IF PairsOfStore.entries = <<>> THEN NoPairsOutcome
           ELSE SuccessOutcome

\* C12: create_learning_entries makes one LearningEntry per aligned pair,
\* in the order of the pairs, which is the order of the source entries;
\* the Thai text, the start time and the duration come from the pair's
\* source entry, the English text from its target entry and the score
\* from the pair.
C12_OneEntryPerPair ==
    (result.called /\ result.success) =>
        LET pairs == PairsOfStore.entries
            out == result.learning_entries
        IN  /\ Len(out) = Len(pairs)
            /\ \A i \in 1..Len(pairs) :
                 /\ i <= Len(out)
                 /\ out[i].thai_text = pairs[i].thai.text
                 /\ out[i].start_time = pairs[i].thai.start
                 /\ out[i].duration = pairs[i].thai.duration
                 /\ out[i].english_text = pairs[i].english.text
                 /\ out[i].overlap_score = pairs[i].overlap_score
                 /\ pairs[i].thai = Cleaned("Thai").entries[pairs[i].ti + 1]
            /\ \A i, j \in 1..Len(pairs) : i < j => pairs[i].ti < pairs[j].ti

\* two entries came out in the order of the Thai transcript, whose second
\* cue starts before its first; both carry the Thai times, not the
\* English ones
C12_Witness ==
    /\ result.success
    /\ Len(result.learning_entries) = 2
    /\ result.learning_entries[1].start_time = Num(Dec(1))
    /\ result.learning_entries[2].start_time = Num(0)
    /\ Cleaned("English").entries[1].start = Num(0)

\* C13: whatever the interleaving of two concurrent calls of
\* process_thai_word for one uncached word, both return the same value and
\* the cache ends with one entry, for that word, holding that value.
C13_RaceKeepsCache ==
    /\ \A w \in DOMAIN word_cache :
         /\ w = race_word
         /\ \E t \in Threads :
              t_pc[t] \in {"store", "done"} /\ word_cache[w] = t_val[t]
    /\ (\A t \in Threads : t_pc[t] = "done") =>
         /\ t_ret[1] = t_ret[2]
         /\ DOMAIN word_cache = {race_word}
         /\ word_cache[race_word] = t_ret[1]
         /\ t_ret[1].thai = race_word

\* both calls missed the cache and computed the value: the dictionary was
\* asked twice
C13_Witness ==
    /\ \A t \in Threads : t_pc[t] = "done"
    /\ calls.freq[race_word] = 2
    /\ t_ret[1].english_translations # <<>>

\* every entry of the cache is kept, with its value, by the step
CacheKept ==
    \A w \in DOMAIN word_cache :
        w \in DOMAIN word_cache' /\ word_cache'[w] = word_cache[w]

\* C14 as stated: over every sequence of the operations offered on the
\* cache, an entry once stored is never removed and never changes.
C14_NeverEvicted == [][CacheKept]_vars

\* C14 amended: every operation but clear_word_cache keeps every entry of
\* the cache with its value; clear_word_cache removes them all.
C14_EvictedOnlyByClear == [][ClearWordCache \/ CacheKept]_vars

\* a batch given only the primary dictionary returned, for a word that
\* process_thai_word had cached with the translations of the secondary
\* one, the cached value
C14_Witness ==
    /\ batch_call.called
    /\ batch_call.which = "freq"
    /\ batch_call.words = <<(<<KoKai + 1>>)>>
    /\ <<KoKai + 1>> \in DOMAIN word_cache
    /\ word_cache[<<KoKai + 1>>].english_translations # <<>>
    /\ batch_call.results = <<Slot(word_cache[<<KoKai + 1>>])>>

\* the headword of the entry, normalized, is the normalized query
HeadwordEquals(entry, term) ==
    /\ entry.t_word.t = "str"
    /\ normalize_search_term(entry.t_word.v) = normalize_search_term(term)

\* C15: the headword search returns exactly the entries whose normalized
\* headword is equal to the normalized query.
C15_HeadwordSearch ==
    sd_out.op = "search_headwords_only" =>
        \A i \in 1..Len(sd_entries) :
            (\E k \in 1..Len(sd_out.entries) :
                 sd_out.entries[k] = sd_entries[i])
              <=> HeadwordEquals(sd_entries[i], sd_term)

\* the first of e_dict, e_dict_v, rom_english that is not None
FirstField(entry) ==
    LET fields == <<entry.e_dict, entry.e_dict_v, entry.rom_english>>
        filled == {k \in 1..3 : fields[k].t # "none"}
    IN  IF filled = {} THEN {}
        ELSE {fields[CHOOSE k \in filled : \A m \in filled : k <= m].v}

Reverse(s) == [i \in 1..Len(s) |-> s[Len(s) + 1 - i]]

\* C16: get_english_translations takes from each entry at most one
\* translation, the first of e_dict, e_dict_v, rom_english that is set;
\* the list is sorted, has no duplicate, has at most as many elements as
\* there are entries, and does not depend on the order of the entries.
C16_Translations ==
    sd_out.op = "get_english_translations" =>
        LET out == sd_out.translations
        IN  /\ {out[i] : i \in 1..Len(out)}
                 = UNION {FirstField(sd_entries[i]) : i \in 1..Len(sd_entries)}
            /\ \A i \in 1..Len(out) - 1 : LexLess(out[i], out[i + 1])
            /\ Len(out) <= Len(sd_entries)
            /\ get_english_translations(Reverse(sd_entries)) = out

\* two entries with e_dict set, one of them with e_dict_v set as well,
\* gave one translation
C16_Witness ==
    /\ sd_out.op = "get_english_translations"
    /\ Len(sd_entries) = 2
    /\ \A i \in 1..2 : sd_entries[i].e_dict.t = "str"
    /\ \E i \in 1..2 : sd_entries[i].e_dict_v.t = "str"
    /\ sd_entries[1] # sd_entries[2]
    /\ Len(sd_out.translations) = 1

\* the faulty call <<collaborator, word>>
TheFault == CHOOSE f \in faults : TRUE

\* the call of the pipeline, were no collaborator faulty
CleanRun ==
    process_video_for_learning(store, [WordState EXCEPT !.faults = {}],
                               overlap_threshold, dict_freq, dict_full)

\* the pipeline, from this state, makes the faulty call
FaultReached ==
    /\ faults # {}
    /\ CleanRun.ws.calls[TheFault[1]][TheFault[2]]
           > calls[TheFault[1]][TheFault[2]]

\* C17: a fault a collaborator raises during process_thai_word on a cache
\* miss propagates out of process_video_for_learning; the cache gets no
\* entry for the word and keeps the entries it had.
C17_FaultPropagates ==
    [][(runs' = runs + 1 /\ FaultReached) =>
          /\ result'.raised
          /\ TheFault[2] \notin DOMAIN word_cache'
          /\ CacheKept]_vars

\* the second word of a cue raised after the first one was cached
C17_Witness ==
    /\ result.raised
    /\ faults # {}
    /\ DOMAIN word_cache = {<<KoKai>>}
    /\ TheFault[2] = <<KoKai + 1>>

FreshWordState ==
    [cache |-> EmptyCache, tcache |-> {},
     calls |-> [translit |-> NoCalls, freq |-> NoCalls, full |-> NoCalls],
     faults |-> faults]

\* C18: two calls of process_video_for_learning on the same transcripts,
\* dictionaries and threshold return equal results, whatever the calls
\* before them left in the cache: the result is the one a call on an empty
\* cache returns.
C18_PureButCache ==
    /\ runs >= 2 => result = prev_result
    /\ result.called =>
         result = process_video_for_learning(store, FreshWordState,
                      overlap_threshold, dict_freq, dict_full).result

\* the second call succeeded on the cache the first one filled
C18_Witness ==
    /\ runs = 2
    /\ result.success
    /\ prev_result.success
    /\ DOMAIN word_cache = Words
    /\ \E i \in 1..Len(result.learning_entries) :
           Len(result.learning_entries[i].word_breakdown) = 2

\* a step of the outer loop of align_subtitles
IterationStep == al_pc = "loop" /\ al_pc' = "loop" /\ thai_idx' = thai_idx + 1

\* C19: eng_idx starts at 0, never decreases, stays below the number of
\* target entries, is left alone by an iteration without a match and is
\* set to the index of the matched target by an iteration with one.
C19_Cursor ==
    [][/\ (al_pc = "call" /\ al_pc' = "loop") =>
             eng_idx' = 0 /\ eng_idx' < Len(al_eng)
       /\ IterationStep =>
             /\ eng_idx' >= eng_idx
             /\ eng_idx' < Len(al_eng)
             /\ aligned' = aligned => eng_idx' = eng_idx
             /\ aligned' # aligned =>
                  /\ Len(aligned') = Len(aligned) + 1
                  /\ eng_idx' = aligned'[Len(aligned')].ei
                  /\ al_eng[eng_idx' + 1] = aligned'[Len(aligned')].english
      ]_vars

\* the first source entry matched the second target, the second source
\* entry, which ends before that target starts, matched none: the cursor
\* is on the second target
C19_Witness ==
    /\ al_pc = "returned"
    /\ thai_idx = 2
    /\ eng_idx = 1
    /\ Len(aligned) = 1
    /\ aligned[1].ti = 0 /\ aligned[1].ei = 1

\* the index at which the scan for source entry s, started at k, stops:
\* the first target that starts after s ends, or the end of the list
RECURSIVE StopIdx(_, _, _)
StopIdx(s, targets, k) ==
    IF k >= Len(targets) \/ targets[k + 1].start.v > End(s) THEN k
    ELSE StopIdx(s, targets, k + 1)

\* the source entry of the iteration and the targets its scan reads
Source == al_thai[thai_idx + 1]
Scanned == eng_idx .. (StopIdx(Source, al_eng, eng_idx) - 1)

\* a ratio qualifies when it is at least the threshold and, if
\* positive_only, greater than zero
Qualifies(ratio, positive_only) ==
    ratio >= overlap_threshold /\ (positive_only => ratio > 0)

\* the iteration emits the scanned target of greatest ratio, the lowest
\* index on a tie, when that ratio qualifies; it emits nothing when no
\* scanned target has a ratio that qualifies
EmitsBest(positive_only) ==
    \E s \in {Source}, S \in {Scanned} :
        \/ /\ aligned' = aligned
           /\ \A m \in S :
                ~Qualifies(calculate_overlap(s, al_eng[m + 1]), positive_only)
        \/ /\ Len(aligned') = Len(aligned) + 1
           /\ \E pair \in {aligned'[Len(aligned')]} :
                /\ pair.ti = thai_idx
                /\ pair.thai = s
                /\ pair.ei \in S
                /\ pair.english = al_eng[pair.ei + 1]
                /\ pair.overlap_score = calculate_overlap(s, pair.english)
                /\ Qualifies(pair.overlap_score, positive_only)
                /\ \A m \in S :
                     \E other \in {calculate_overlap(s, al_eng[m + 1])} :
                        /\ other <= pair.overlap_score
                        /\ other = pair.overlap_score => pair.ei <= m
           /\ SubSeq(aligned', 1, Len(aligned)) = aligned

\* C20 as stated: the pair emitted for a source entry is the scanned
\* target of greatest ratio, the lowest index on a tie, provided the ratio
\* is at least the threshold; otherwise nothing is emitted.
C20_BestScanned == [][IterationStep => EmitsBest(FALSE)]_vars

\* C20 amended: the pair is emitted provided the greatest ratio is at
\* least the threshold and greater than zero; otherwise nothing is.
C20_BestPositiveScanned == [][IterationStep => EmitsBest(TRUE)]_vars

\* two targets had the same ratio for the first source entry and the first
\* of them was emitted
C20_Witness ==
    /\ al_pc = "returned"
    /\ Len(al_eng) = 2
    /\ Len(aligned) >= 1
    /\ aligned[1].ti = 0 /\ aligned[1].ei = 0
    /\ calculate_overlap(al_thai[1], al_eng[2]) = aligned[1].overlap_score
    /\ al_eng[1] # al_eng[2]

\* ---------------------------------------------------------------- C21
\* the inner loop without its break: every target from temp_eng_idx on
RECURSIVE ScanEvery(_, _, _, _, _)
ScanEvery(thai_sub, eng_subs, threshold, temp_eng_idx, best) ==
    IF ~(temp_eng_idx < Len(eng_subs)) THEN best
    ELSE
      LET eng_sub == eng_subs[temp_eng_idx + 1]
      IN  IF End(eng_sub) < thai_sub.start.v
          THEN ScanEvery(thai_sub, eng_subs, threshold,
                         temp_eng_idx + 1, best)
          ELSE
            LET overlap == calculate_overlap(thai_sub, eng_sub)
            IN  IF overlap > best.best_score /\ overlap >= threshold
                THEN ScanEvery(thai_sub, eng_subs, threshold,
                         temp_eng_idx + 1,
                         [best EXCEPT !.found = TRUE,
                                      !.best_score = overlap,
                                      !.best_eng_idx = temp_eng_idx])
                ELSE ScanEvery(thai_sub, eng_subs, threshold,
                         temp_eng_idx + 1, best)

\* the pairs of the variant that scans to the end of the list, from the
\* loop state [thai_idx, eng_idx, aligned] on
RECURSIVE EveryLoop(_, _, _, _)
EveryLoop(thai_subs, eng_subs, threshold, st) ==
    IF ~(st.thai_idx < Len(thai_subs) /\ st.eng_idx < Len(eng_subs))
    THEN st.aligned
    ELSE
      LET thai_sub == thai_subs[st.thai_idx + 1]
          best == ScanEvery(thai_sub, eng_subs, threshold, st.eng_idx,
                      [found |-> FALSE, best_score |-> 0,
                       best_eng_idx |-> st.eng_idx])
      IN  EveryLoop(thai_subs, eng_subs, threshold,
              [thai_idx |-> st.thai_idx + 1,
               eng_idx |-> IF best.found
                           THEN Max2(st.eng_idx, best.best_eng_idx)
                           ELSE st.eng_idx,
               aligned |->
                   IF best.found
                   THEN Append(st.aligned,
                            [thai |-> thai_sub,
                             english |-> eng_subs[best.best_eng_idx + 1],
                             overlap_score |-> best.best_score,
                             ti |-> st.thai_idx,
                             ei |-> best.best_eng_idx])
                   ELSE st.aligned])

SortedByStart(subs) ==
    \A i \in 1..Len(subs), k \in 1..Len(subs) :
        i < k => subs[i].start.v <= subs[k].start.v

\* C21: when the targets are sorted by start, the pairs align_subtitles
\* returns (sources, targets and scores) are those of the variant that
\* scans every target from the cursor to the end of the list
C21_EarlyStopLossless ==
    (al_pc = "returned" /\ al_thai # <<>> /\ al_eng # <<>>
        /\ SortedByStart(al_eng))
    => aligned = EveryLoop(al_thai, al_eng, overlap_threshold,
                     [thai_idx |-> 0, eng_idx |-> 0, aligned |-> <<>>])

\* a returned call on sorted targets that emitted a pair and left a scan
\* early at a target other than the first
C21_Witness ==
    /\ al_pc = "returned" /\ SortedByStart(al_eng)
    /\ aligned # <<>>
    /\ \E i \in 1..Len(al_thai), k \in 2..Len(al_eng) :
           /\ StopsScan(al_eng[k], al_thai[i])
           /\ ~StopsScan(al_eng[k - 1], al_thai[i])

\* ---------------------------------------------------------------- C22
\* C22: every pass of the outer loop moves the source index up by one and
\* stays within the source list, its inner scan takes at most as many
\* passes as targets remain from the cursor, and the loop is left only
\* with the source list exhausted and the cursor inside the target list
C22_Terminates ==
    [][/\ (al_pc = "loop" /\ al_pc' = "loop")
            => /\ thai_idx' = thai_idx + 1
               /\ thai_idx' <= Len(al_thai)
               /\ scan_steps' <= Len(al_eng) - eng_idx
       /\ (al_pc = "loop" /\ al_pc' = "returned")
            => /\ thai_idx = Len(al_thai)
               /\ eng_idx < Len(al_eng)]_vars

\* a call on two sources that returned after a scan of two passes
C22_Witness ==
    /\ al_pc = "returned"
    /\ Len(al_thai) = 2 /\ thai_idx = 2
    /\ Len(al_eng) = 2 /\ scan_steps = 2

\* ---------------------------------------------------------------- C25
\* C25: along the pairs emitted so far the source indices strictly
\* increase (no source is in two pairs) and the target indices never
\* decrease
C25_NeverCross ==
    \A p \in 1..Len(aligned), q \in 1..Len(aligned) :
        p < q => /\ aligned[p].ti < aligned[q].ti
                 /\ aligned[p].ei <= aligned[q].ei

\* two pairs: the first source with the first target, the second source
\* with the second target
C25_Witness ==
    /\ al_pc = "returned"
    /\ Len(aligned) = 2
    /\ aligned[1].ti = 0 /\ aligned[1].ei = 0
    /\ aligned[2].ti = 1 /\ aligned[2].ei = 1

\* ---------------------------------------------------------------- C28
\* C28: in a success result aligned_count is the number of learning
\* entries, it is at least 1 and at most total_thai_subs, alignment_rate
\* is above 0 and at most 1, and neither total is 0
C28_SuccessStatistics ==
    (result.called /\ result.success) =>
        /\ result.aligned_count = Len(result.learning_entries)
        /\ 1 <= result.aligned_count
        /\ result.aligned_count <= result.total_thai_subs
        /\ 0 < result.alignment_rate
        /\ result.alignment_rate <= One
        /\ result.total_thai_subs # 0
        /\ result.total_english_subs # 0

\* a success in which both of two Thai entries were aligned: rate 1
C28_Witness ==
    /\ result.called /\ result.success
    /\ result.total_thai_subs = 2
    /\ result.aligned_count = 2
    /\ Len(result.learning_entries) = 2
    /\ result.alignment_rate = One

\* ---------------------------------------------------------------- C26
\* C26: after any sequence of process_thai_word and
\* process_thai_words_batch calls, a call of process_thai_word with both
\* dictionaries returns the translations of the primary dictionary if
\* there are any and those of the secondary dictionary otherwise
C26_TwoTierWhateverCached ==
    (word_call.called /\ word_call.has_full /\ ~word_call.raised) =>
        word_call.result.english_translations =
            IF PrimaryList = <<>> THEN SecondaryList ELSE PrimaryList

\* ---------------------------------------------------------------- C27
\* C27: the list process_thai_words_batch returns is as long as words and
\* holds at every position the TokenizedThaiWord of the word at that
\* position, never a placeholder
C27_BatchPositions ==
    (batch_call.called /\ ~batch_call.raised) =>
        /\ Len(batch_call.results) = Len(batch_call.words)
        /\ \A i \in 1..Len(batch_call.words) :
               /\ ~batch_call.results[i].none
               /\ batch_call.results[i].value.thai = batch_call.words[i]

\* ---------------------------------------------------------------- C24
\* C24: in the entries search_with_priority returns, no entry that matches
\* the query only through a synonym or related term stands before an entry
\* whose headword is the query
C24_HeadwordsFirst ==
    sd_out.op = "search_with_priority" =>
        \A p \in 1..Len(sd_out.entries), q \in 1..Len(sd_out.entries) :
            p < q => ~(/\ ~HeadwordEquals(sd_out.entries[p], sd_term)
                       /\ HeadwordEquals(sd_out.entries[q], sd_term))

\* ---------------------------------------------------------------- C30
IsZeroWidth(c) == c \in ZeroWidth

\* no whitespace at either end, no zero-width character, no two
\* whitespace characters in a row
Canonical(s) ==
    /\ s # <<>> => ~IsSpace(s[1]) /\ ~IsSpace(s[Len(s)])
    /\ \A i \in 1..Len(s) : ~IsZeroWidth(s[i])
    /\ \A i \in 1..(Len(s) - 1) : ~(IsSpace(s[i]) /\ IsSpace(s[i + 1]))

\* C30: what normalize_text returns is a fixed point of normalize_text,
\* and a result that is not None is in canonical form
C30_NormalizeIdempotent ==
    sd_out.op = "normalize_text" =>
        /\ normalize_text(sd_out.text) = sd_out.text
        /\ sd_out.text.t = "str" => Canonical(sd_out.text.v)

\* ---------------------------------------------------------------- C23
\* the token holds a character of U+0E00..U+0E7F
HasThaiChar(tok) == \E i \in 1..Len(tok) : tok[i] \in 3584..3711

\* the tokens of the tokenizer that hold a Thai character, in its order
ThaiTokens == SelectSeq(word_tokenize(normalize(sent_text)), HasThaiChar)

\* C23: process_thai_sentence returns one annotated token for each token
\* of the tokenizer that holds a character of U+0E00..U+0E7F and none for
\* the others, in the tokenizer's order, a repeated token as many times as
\* it occurs
C23_OnePerThaiToken ==
    (sent_out.called /\ ~sent_out.raised) =>
        /\ Len(sent_out.words) = Len(ThaiTokens)
        /\ \A i \in 1..Len(ThaiTokens) :
               sent_out.words[i].thai = ThaiTokens[i]

\* a sentence with the same Thai token twice and a token without a Thai
\* character: two annotated tokens for three tokens
C23_Witness ==
    /\ sent_out.called /\ ~sent_out.raised
    /\ Len(word_tokenize(normalize(sent_text))) = 3
    /\ Len(sent_out.words) = 2
    /\ sent_out.words[1].thai = sent_out.words[2].thai

\* ---------------------------------------------------------------- C29
\* C29: once both calls of save_transcript_to_file have returned,
\* index.json holds the keys of both, whatever the interleaving of their
\* load, modify and save steps was
C29_NoLostUpdate ==
    (\A s \in Savers : sv_pc[s] = "done") =>
        \A s \in Savers : KeyOf(s) \in index_file

====
